---- MODULE Spec2Model ----
(***************************************************************************)
(* Model of WebsiteProcessor (src/main.py): the primary queue, the delayed *)
(* ("side") queue, the Result log and the process_all scheduler with its   *)
(* retry policy.  Time is counted in minutes.  The browser sessions, the   *)
(* proxy tunnel and the availability probe are external collaborators:     *)
(* each of their calls has a nondeterministic outcome (a value or a raised *)
(* exception).                                                             *)
(***************************************************************************)
EXTENDS Naturals, Integers, Sequences, FiniteSets, TLC

\* ---------------------------------------------------------------- bounds
\* Largest number of rows loaded into the primary queue.
MaxItems == 3

\* Attempts of one run that may take RetryDelay minutes; the others take
\* no time to speak of.
MaxSlow == 1

\* Largest number of resource URLs a captured page requested.
MaxUrls == 2

\* Largest number of quoted references in an HTML text, and of entries in
\* a URL mapping.
MaxRefs == 2
MaxEntries == 2

\* Largest number of filled rows of the sheet.
MaxRows == 4

\* Largest number of ProxyManager instances of one process, and of
\* add_proxy calls made on them.
MaxManagers == 2
MaxAdds == 3

\* Largest number of scrolls after which a page that stops growing is
\* still taller than before.
MaxGrowth == 2

\* ------------------------------------------------------ program constants
\* timedelta(minutes=7): the fixed retry delay.
RetryDelay == 7
\* attempts=3: the budget of a fresh WaitWorkUnit.
InitialAttempts == 3
\* _download_file: max_retries = 3, retry_delay = 1
max_retries == 3
retry_delay == 1
\* UndetectBrowser(max_workers=10): the size of the download pool.
max_workers == 10

\* The region that is processed without a proxy (work.lang != "ru").
DefaultLang == "ru"
\* Region codes of the input rows: the default one, one with a proxy entry
\* and one without.
Langs == {"ru", "de", "xx"}
\* proxy_manager.regions after _load_proxies: the regions of proxy.json.
Regions == {"de"}
\* proxy_manager.get_proxy(country_name): the ProxyUnit of a region.
GetProxy(country_name) == [region |-> country_name]
\* Optional[ProxyUnit] = None
NoProxy == [region |-> "None"]

\* Minutes one processing attempt may take (probe, sessions, capture):
\* next to nothing, or as long as a retry delay.
Durations == {0, RetryDelay}

\* The durations open to the next attempt after `n` slow ones.
Elapsed(n) == {d \in Durations : d = 0 \/ n < MaxSlow}

\* The count of slow attempts after one that took `d` minutes.
Slower(n, d) == IF d > 0 THEN n + 1 ELSE n
\* Page titles a browser session may return.
Titles == {"A", "B"}

\* Context strings of the error Results.
CtxNoProxy == "no proxy for the link"          \* "Нет прокси для обработки ссылки"
CtxUnavailable == "link unavailable"            \* "Ссылка недоступна"
CtxStale == "link is stale"                     \* "Ссылка устарела"
CtxDownload == "problems downloading the site"  \* "Проблемы при загрузке сайта"

VARIABLES
    main_queue,    \* self.main_queue: the WorkUnits loaded from the sheet
    queue,         \* process_all's local copy of main_queue
    side_queue,    \* self.side_queue: the WaitWorkUnits awaiting a re-attempt
    data,          \* self.data: the Result log
    dirs,          \* numbered directories under websites/<lang>
    now,           \* datetime.now(), in minutes
    pc,            \* position of process_all
    current_time,  \* process_all's local current_time
    pending,       \* the rest of list(self.side_queue) still to iterate
    last,          \* record of the most recent processing attempt
    slow,          \* attempts so far that took RetryDelay minutes
    tries,         \* per waiting item, the calls of _process_browser so far
    cpc,           \* position of the capture of one page (download_website)
    page,          \* how the page's height reacts to further scrolls
    taller,        \* document.body.scrollHeight differs from last_height
    urls,          \* resource_urls: the URLs _get_page_resources returns
    worker,        \* per URL, the state of its _download_file task
    url_to_local,  \* download_resources: the mapping built so far
    rpc,           \* position of the calls of replace_urls_in_html
    html_content,  \* replace_urls_in_html: the text being rewritten
    url_mapping,   \* replace_urls_in_html: the mapping, in iteration order
    entry,         \* index of the next mapping entry of the running call
    html_in,       \* the text the first call was given
    html_once,     \* the text the first call returned (written to index.html)
    requests,      \* _get_page_resources: the local list `requests`
    driver_requests, \* self.driver.requests: the requests seen so far
    quiet,         \* time.sleep(2) calls of the request loop so far
    fpc,           \* position of the file operations on one working directory
    target_dir,    \* the entries of the target directory: name -> kind
    source_dir,    \* the working directory: its kind and its entries
    new_folder,    \* the numbered folder made by the move and its entries
    archive,       \* what shutil.make_archive left at the archive path
    manager_class, \* the attributes of class ProxyManager
    managers,      \* per ProxyManager instance, its own attributes
    naming,        \* one call of _generate_filename: arguments and result
    lpc,           \* position of _load_main_queue
    sheet,         \* the rows of the sheet: link, marker and region cells
    row,           \* _load_main_queue: the local `row`
    apc,           \* position of one attempt among its tunnel and sessions
    attempt_no,    \* attempts started so far
    region,        \* work.lang of the running attempt
    process,       \* Proxy.process of the attempt's Proxy object
    tunnels,       \* the tunnel processes that run
    sessions,      \* the browser sessions that are open
    exiting,       \* how the running attempt leaves _process_browser
    tpc,           \* position of one attempt among its writes to temp/
    run,           \* attempts that have written to temp/ so far
    temp,          \* the files of temp/: name -> the attempt that wrote it
    artifacts,     \* the numbered directories made, with their files
    writers,       \* per colliding download, its _download_file task
    disk,          \* the files of the download directory: path -> chunks
    saved,         \* download_resources: url_to_local as built so far
    closed         \* the URLs in the order their writes finished

\* The state of process_all and the state of one page capture.
sched_vars == <<main_queue, queue, side_queue, data, dirs, now, pc,
                current_time, pending, last, slow, tries>>
capture_vars == <<cpc, page, taller, urls, worker, url_to_local, requests,
                  driver_requests, quiet>>
rewrite_vars == <<rpc, html_content, url_mapping, entry, html_in, html_once>>
\* The state of the file operations, of the proxy registry, of one filename
\* generation and of the loading of the sheet.
files_vars == <<fpc, target_dir, source_dir, new_folder, archive>>
proxy_vars == <<manager_class, managers>>
naming_vars == <<naming>>
load_vars == <<lpc, sheet, row>>
\* The tunnel and the browser sessions of the attempts, one after another.
resource_vars == <<apc, attempt_no, region, process, tunnels, sessions, exiting>>
\* The working directory over consecutive attempts, and the downloads of
\* one page that write to the download directory.
temp_vars == <<tpc, run, temp, artifacts>>
store_vars == <<writers, disk, saved, closed>>
vars == <<main_queue, queue, side_queue, data, dirs, now, pc, current_time,
          pending, last, slow, tries, cpc, page, taller, urls, worker, url_to_local,
          rpc, html_content, url_mapping, entry, html_in, html_once,
          requests, driver_requests, quiet, fpc, target_dir, source_dir,
          new_folder, archive, manager_class, managers, naming, lpc, sheet,
          row, apc, attempt_no, region, process, tunnels, sessions, exiting,
          tpc, run, temp, artifacts, writers, disk, saved, closed>>

\* What the steps of each part leave alone.
not_sched == <<capture_vars, rewrite_vars, files_vars, proxy_vars,
               naming_vars, load_vars, resource_vars, temp_vars, store_vars>>
not_capture == <<sched_vars, rewrite_vars, files_vars, proxy_vars,
                 naming_vars, load_vars, resource_vars, temp_vars, store_vars>>
not_rewrite == <<sched_vars, capture_vars, files_vars, proxy_vars,
                 naming_vars, load_vars, resource_vars, temp_vars, store_vars>>

\* ------------------------------------------------------------ data model
\* WorkUnit(link, lang, ...): link stands for the row's link (its identity).
WorkUnit(link, lang) == [link |-> link, lang |-> lang]

\* WaitWorkUnit(work, proxy, timestamp, attempts)
WaitWorkUnit(work, proxy, attempts, timestamp) ==
    [work |-> work, proxy |-> proxy, timestamp |-> timestamp, attempts |-> attempts]

\* isinstance(unit, WaitWorkUnit)
IsWait(unit) == "attempts" \in DOMAIN unit

\* ResultWorkUnit(status, unit, timestamp, path=None, context=None); the
\* timestamp of a Result is never read by the scheduler and is left out.
NoPath == [lang |-> "None", number |-> 0]
NoContext == "None"
\* Faulty variant: the path given to the constructor is not stored.
ResultWorkUnitDropsPath(status, unit, path, context) ==
    [status |-> status, unit |-> unit, path |-> NoPath, context |-> context]

\* The Result as constructed: optional fields keep what they were given.
ResultWorkUnit(status, unit, path, context) ==
    [status |-> status, unit |-> unit, path |-> path, context |-> context]

\* list.remove(x): drops the first element equal to x.
RECURSIVE Remove(_, _)
Remove(s, x) ==
    IF s = <<>> THEN <<>>
    ELSE IF Head(s) = x THEN Tail(s)
    ELSE <<Head(s)>> \o Remove(Tail(s), x)

\* ------------------------------------------------------ one attempt
\* The working state of one processing attempt: the collections it may
\* change and what it did (tunnel started and the proxy profile it was
\* started with, sessions started, titles read, the
\* stage that raised, outcome, return value, exception escaping to the
\* caller).
Begin(sq, dt, ds) ==
    [side_queue |-> sq, data |-> dt, dirs |-> ds,
     tunnel |-> 0, profile |-> NoProxy, direct |-> 0, mobile |-> 0,
     compared |-> FALSE,
     main_title |-> "None", secret_title |-> "None",
     probe |-> "none", stage |-> "none", outcome |-> "none", ret |-> FALSE,
     raised |-> FALSE]

\* Outcomes of check_site_availability: response.ok, not ok or a
\* RequestException (both return False), or an exception that is not a
\* RequestException and leaves the method.
Probes == {"ok", "unavailable", "raise"}

\* What the browser stage of an attempt meets: the direct session and the
\* mobile session each work or raise, the two titles, and where the steps
\* after the comparison end: all pass, or the capture or the zip inside
\* download_website raises, or pdf, download_image or _save_info_file
\* raises, or move_to_numbered_dir raises.
Tails == {"ok", "capture_raise", "archive_raise", "save_raise", "move_raise"}
BrowserScenarios(lang) ==
    LET base == [direct |-> "ok", mobile |-> "ok", main_title |-> "A",
                 secret_title |-> "A", tail |-> "ok"]
    IN  IF lang # DefaultLang
        THEN {[base EXCEPT !.direct = "raise"], [base EXCEPT !.mobile = "raise"]}
             \cup {[base EXCEPT !.main_title = m, !.secret_title = m] : m \in Titles}
             \cup {[base EXCEPT !.main_title = p[1], !.secret_title = p[2], !.tail = tl] :
                     p \in {q \in Titles \X Titles : q[1] # q[2]}, tl \in Tails}
        ELSE {[base EXCEPT !.mobile = "raise"]}
             \cup {[base EXCEPT !.tail = tl] : tl \in Tails}

\* What one attempt meets: the outcome of the probe and, when the probe
\* lets the attempt through to the browser stage, a browser scenario.
NoScenario ==
    [direct |-> "none", mobile |-> "none", main_title |-> "None",
     secret_title |-> "None", tail |-> "none"]
Environments(lang) ==
    {[probe |-> p, sc |-> NoScenario] : p \in Probes \ {"ok"}}
    \cup {[probe |-> "ok", sc |-> x] : x \in BrowserScenarios(lang)}

\* Faulty variant: ignores the folders that exist.
NextNumberRestarts(existing) == 1

\* Faulty variant: the smallest number that no folder has.
NextNumberFillsGap(existing) ==
    CHOOSE n \in 1..(Cardinality(existing) + 1) :
        n \notin existing /\ \A k \in 1..(n - 1) : k \in existing

\* DirManager.move_to_numbered_dir: max of the numbered folders + 1, or 1.
NextNumber(existing) ==
    IF existing = {} THEN 1
    ELSE (CHOOSE m \in existing : \A n \in existing : n <= m) + 1

\* Faulty variant: the delay is a minute short.
NotBeforeShort(t) == t + RetryDelay - 1

\* datetime.now() + timedelta(minutes=7)
NotBefore(t) == t + RetryDelay

\* Faulty variant: the unit is put at the head of the delayed queue.
RequeueAtHead(sq, unit) == <<unit>> \o sq

\* self.side_queue.append(unit)
Requeue(sq, unit) == Append(sq, unit)

\* Faulty variant of the title-match branch: tests `unit.attempts == 0`
\* where the code tests `(unit.attempts - 1) == 0`.
CloakBranchOffByOne(S, unit, work, proxy, t) ==
    IF IsWait(unit)
    THEN LET S1 == IF unit.attempts = 0
                   THEN [S EXCEPT !.data = Append(@,
                            ResultWorkUnit("error", work, NoPath, CtxStale))]
                   ELSE S
             S2 == IF (unit.attempts - 1) > 0
                   THEN [S1 EXCEPT !.side_queue = Requeue(@,
                            [unit EXCEPT !.attempts = unit.attempts - 1,
                                         !.timestamp = NotBefore(t)])]
                   ELSE S1
         IN  [S2 EXCEPT !.ret = FALSE, !.outcome = "cloak"]
    ELSE [S EXCEPT !.side_queue = Requeue(@,
              WaitWorkUnit(work, proxy, InitialAttempts, NotBefore(t))),
              !.ret = FALSE, !.outcome = "cloak"]

\* Faulty variant of the title-match branch: a unit out of attempts gets its
\* Result and is put back all the same, for another 7 minutes.
CloakBranchResultAndRequeue(S, unit, work, proxy, t) ==
    IF IsWait(unit)
    THEN LET S1 == IF (unit.attempts - 1) = 0
                   THEN [S EXCEPT !.data = Append(@,
                            ResultWorkUnit("error", work, NoPath, CtxStale)),
                            !.side_queue = Requeue(@,
                            [unit EXCEPT !.timestamp = NotBefore(t)])]
                   ELSE S
             S2 == IF (unit.attempts - 1) > 0
                   THEN [S1 EXCEPT !.side_queue = Requeue(@,
                            [unit EXCEPT !.attempts = unit.attempts - 1,
                                         !.timestamp = NotBefore(t)])]
                   ELSE S1
         IN  [S2 EXCEPT !.ret = FALSE, !.outcome = "cloak"]
    ELSE [S EXCEPT !.side_queue = Requeue(@,
              WaitWorkUnit(work, proxy, InitialAttempts, NotBefore(t))),
              !.ret = FALSE, !.outcome = "cloak"]

\* _process_browser, title match: the item is requeued or, out of attempts,
\* gets its terminal Result.
CloakBranch(S, unit, work, proxy, t) ==
    IF IsWait(unit)
    THEN LET S1 == IF (unit.attempts - 1) = 0
                   THEN [S EXCEPT !.data = Append(@,
                            ResultWorkUnit("error", work, NoPath, CtxStale))]
                   ELSE S
             S2 == IF (unit.attempts - 1) > 0
                   THEN [S1 EXCEPT !.side_queue = Requeue(@,
                            [unit EXCEPT !.attempts = unit.attempts - 1,
                                         !.timestamp = NotBefore(t)])]
                   ELSE S1
         IN  [S2 EXCEPT !.ret = FALSE, !.outcome = "cloak"]
    ELSE [S EXCEPT !.side_queue = Requeue(@,
              WaitWorkUnit(work, proxy, InitialAttempts, NotBefore(t))),
              !.ret = FALSE, !.outcome = "cloak"]

\* Faulty variant of the except branch: requeues the unit without taking
\* one off its attempts.
ExceptBranchNoDecrement(S, unit, work, proxy, t) ==
    IF IsWait(unit)
    THEN LET S1 == IF (unit.attempts - 1) = 0
                   THEN [S EXCEPT !.data = Append(@,
                            ResultWorkUnit("error", work, NoPath, CtxStale))]
                   ELSE S
             S2 == IF (unit.attempts - 1) > 0
                   THEN [S1 EXCEPT !.side_queue = Requeue(@,
                            [unit EXCEPT !.timestamp = NotBefore(t)])]
                   ELSE S1
         IN  [S2 EXCEPT !.ret = FALSE, !.outcome = "exception"]
    ELSE [S EXCEPT !.side_queue = Requeue(@,
              WaitWorkUnit(work, proxy, InitialAttempts, NotBefore(t))),
              !.ret = FALSE, !.outcome = "exception"]

\* Faulty variant of the except branch: puts the unit back even when no
\* attempt is left.
ExceptBranchRequeuesAtZero(S, unit, work, proxy, t) ==
    IF IsWait(unit)
    THEN LET S1 == IF (unit.attempts - 1) = 0
                   THEN [S EXCEPT !.data = Append(@,
                            ResultWorkUnit("error", work, NoPath, CtxStale))]
                   ELSE S
             S2 == [S1 EXCEPT !.side_queue = Requeue(@,
                            [unit EXCEPT !.attempts = unit.attempts - 1,
                                         !.timestamp = NotBefore(t)])]
         IN  [S2 EXCEPT !.ret = FALSE, !.outcome = "exception"]
    ELSE [S EXCEPT !.side_queue = Requeue(@,
              WaitWorkUnit(work, proxy, InitialAttempts, NotBefore(t))),
              !.ret = FALSE, !.outcome = "exception"]

\* _process_browser, except Exception: the same policy for a raised error.
ExceptBranch(S, unit, work, proxy, t) ==
    IF IsWait(unit)
    THEN LET S1 == IF (unit.attempts - 1) = 0
                   THEN [S EXCEPT !.data = Append(@,
                            ResultWorkUnit("error", work, NoPath, CtxStale))]
                   ELSE S
             S2 == IF (unit.attempts - 1) > 0
                   THEN [S1 EXCEPT !.side_queue = Requeue(@,
                            [unit EXCEPT !.attempts = unit.attempts - 1,
                                         !.timestamp = NotBefore(t)])]
                   ELSE S1
         IN  [S2 EXCEPT !.ret = FALSE, !.outcome = "exception"]
    ELSE [S EXCEPT !.side_queue = Requeue(@,
              WaitWorkUnit(work, proxy, InitialAttempts, NotBefore(t))),
              !.ret = FALSE, !.outcome = "exception"]

\* Faulty variant: the comparison is made for every region.
ComparesTitlesAlways(work) == TRUE

\* Whether _process_browser opens the direct session and compares titles.
ComparesTitles(work) == work.lang # DefaultLang

\* Faulty variant: the comparison never finds the titles equal.
TitlesMatchNever(main_title, secret_title) == FALSE

\* if main_title == secret_title
TitlesMatch(main_title, secret_title) == main_title = secret_title

\* Faulty variant: download_website logs its failure and returns a false
\* value where the code raises again.
DownloadWebsiteSwallows(tail) ==
    IF tail \in {"capture_raise", "archive_raise"} THEN "false" ELSE "paths"

\* UndetectBrowser.download_website: returns the pair of paths, or logs and
\* raises again what the capture or make_archive raised.
DownloadWebsite(tail) ==
    IF tail \in {"capture_raise", "archive_raise"} THEN "raise" ELSE "paths"

\* The stage of the attempt that fails under scenario sc.
FailingStage(cmp, sc) ==
    CASE cmp /\ sc.direct = "raise" -> "direct"
      [] sc.mobile = "raise" -> "mobile"
      [] sc.tail = "capture_raise" -> "capture"
      [] sc.tail = "archive_raise" -> "archive"
      [] sc.tail = "save_raise" -> "save"
      [] sc.tail = "move_raise" -> "move"
      [] OTHER -> "none"

\* _process_browser(unit, proxy) at time t under scenario sc.
ProcessBrowser(S, unit, proxy0, t, sc) ==
    LET work == IF IsWait(unit) THEN unit.work ELSE unit
        proxy == IF IsWait(unit) THEN unit.proxy ELSE proxy0
        cmp == ComparesTitles(work)
        \* with Browser(proxy=None, headless=True) as browser
        S1 == IF cmp THEN [S EXCEPT !.direct = @ + 1] ELSE S
    IN  IF cmp /\ sc.direct = "raise"
        THEN ExceptBranch([S1 EXCEPT !.stage = "direct"], unit, work, proxy, t)
        ELSE
        LET \* main_title read, direct session closed, mobile session created
            S2 == [S1 EXCEPT !.mobile = @ + 1,
                             !.main_title = IF cmp THEN sc.main_title ELSE @]
        IN  IF sc.mobile = "raise"
            THEN ExceptBranch([S2 EXCEPT !.stage = "mobile"], unit, work, proxy, t)
            ELSE
            LET S3 == IF cmp
                      THEN [S2 EXCEPT !.compared = TRUE,
                                      !.secret_title = sc.secret_title]
                      ELSE S2
                S4 == [S3 EXCEPT !.stage = FailingStage(cmp, sc)]
                number == NextNumber(S3.dirs[work.lang])
                made == [S3 EXCEPT !.dirs[work.lang] = @ \cup {number}]
            IN  IF cmp /\ TitlesMatch(S3.main_title, S3.secret_title)
                THEN CloakBranch(S3, unit, work, proxy, t)
                ELSE CASE DownloadWebsite(sc.tail) = "raise" ->
                            ExceptBranch(S4, unit, work, proxy, t)
                       [] DownloadWebsite(sc.tail) = "false" ->
                            \* if not browser.download_website("website")
                            [S4 EXCEPT !.data = Append(@,
                                ResultWorkUnit("error", work, NoPath, CtxDownload)),
                                !.ret = FALSE, !.outcome = "download_false"]
                       [] sc.tail \in {"save_raise", "move_raise"} ->
                            \* pdf, download_image, _save_info_file or
                            \* move_to_numbered_dir raised
                            ExceptBranch(S4, unit, work, proxy, t)
                       [] OTHER ->
                            [made EXCEPT !.data = Append(@,
                                ResultWorkUnit("ok", work,
                                    [lang |-> work.lang, number |-> number],
                                    NoContext)),
                                !.ret = TRUE, !.outcome = "ok"]

\* Faulty variant: the result of the probe is not looked at.
ProcessWithoutProxyNoProbe(S, unit, t, probe, sc) ==
    ProcessBrowser([S EXCEPT !.probe = probe], unit, NoProxy, t, sc)

\* _process_without_proxy(unit): probe, then the browser stage.  An
\* exception of the probe leaves the method.
ProcessWithoutProxy(S, unit, t, probe, sc) ==
    LET work == IF IsWait(unit) THEN unit.work ELSE unit
        S0 == [S EXCEPT !.probe = probe]
    IN  CASE probe = "raise" ->
               [S0 EXCEPT !.raised = TRUE, !.outcome = "escaped"]
          [] probe = "unavailable" ->
               [S0 EXCEPT !.data = Append(@,
                   ResultWorkUnit("error", work, NoPath, CtxUnavailable)),
                   !.ret = FALSE, !.outcome = "unavailable"]
          [] OTHER -> ProcessBrowser(S0, unit, NoProxy, t, sc)

\* _process_with_proxy(unit, proxy): the same inside `with Proxy(...)`;
\* `except Exception` swallows what the probe raised and returns False.
ProcessWithProxy(S, unit, proxy0, t, probe, sc) ==
    LET work == IF IsWait(unit) THEN unit.work ELSE unit
        \* if isinstance(unit, WaitWorkUnit): proxy = unit.proxy
        proxy == IF IsWait(unit) THEN unit.proxy ELSE proxy0
        S1 == [S EXCEPT !.tunnel = @ + 1, !.profile = proxy, !.probe = probe]
    IN  CASE probe = "raise" ->
               [S1 EXCEPT !.ret = FALSE, !.outcome = "swallowed"]
          [] probe = "unavailable" ->
               [S1 EXCEPT !.data = Append(@,
                   ResultWorkUnit("error", work, NoPath, CtxUnavailable)),
                   !.ret = FALSE, !.outcome = "unavailable"]
          [] OTHER -> ProcessBrowser(S1, unit, proxy0, t, sc)

\* ------------------------------------------------------------ scheduler
\* The rows of the sheet that _load_main_queue turns into WorkUnits.
Inputs == UNION {[1..n -> Langs] : n \in 0..MaxItems}
LoadMainQueue(rows) == [i \in 1..Len(rows) |-> WorkUnit(i, rows[i])]

\* The calls of _process_browser made for an item, the attempt S included:
\* tr counts them for the items that wait in the delayed queue, and the
\* attempt has called _process_browser when it started a session.
Counted(S, work, tr) ==
    (IF work \in DOMAIN tr THEN tr[work] ELSE 0)
        + (IF S.direct + S.mobile > 0 THEN 1 ELSE 0)

\* The counts of the items that wait after the attempt S on work.
TriesAfter(S, work, tr) ==
    [w \in {S.side_queue[j].work : j \in 1..Len(S.side_queue)} |->
        IF w = work THEN Counted(S, work, tr) ELSE tr[w]]

\* The record kept of an attempt: which unit, what it did (tunnel and
\* sessions started, titles compared and found equal, the stage that
\* raised, outcome) and what it
\* changed (Results appended, directory made, units put in the delayed
\* queue); n is the number of calls of _process_browser made for the item,
\* this attempt included.
AttemptRecord(unit, S, data_before, dirs_before, queued_before, n) ==
    [work |-> IF IsWait(unit) THEN unit.work ELSE unit,
     wait |-> IsWait(unit),
     attempts |-> IF IsWait(unit) THEN unit.attempts ELSE 0,
     stored |-> IF IsWait(unit) THEN unit.proxy ELSE NoProxy,
     tunnel |-> S.tunnel, profile |-> S.profile,
     probe |-> S.probe, stage |-> S.stage,
     direct |-> S.direct, mobile |-> S.mobile,
     compared |-> S.compared,
     same_title |-> S.compared /\ S.main_title = S.secret_title,
     outcome |-> S.outcome, tries |-> n,
     results |-> SubSeq(S.data, Len(data_before) + 1, Len(S.data)),
     dir_made |-> S.dirs # dirs_before,
     queued |-> SubSeq(S.side_queue, Len(queued_before) + 1, Len(S.side_queue))]

NoAttempt ==
    AttemptRecord(WorkUnit(0, "None"), Begin(<<>>, <<>>, <<>>), <<>>, <<>>, <<>>, 0)

\* No page capture is modelled step by step.
NoCapture ==
    /\ cpc = "idle"
    /\ page = [endless |-> FALSE, growth |-> 0]
    /\ taller = FALSE
    /\ urls = {}
    /\ worker = <<>>
    /\ url_to_local = <<>>
    /\ requests = {}
    /\ driver_requests = {}
    /\ quiet = 0

\* No call of replace_urls_in_html is modelled step by step.
NoRewrite ==
    /\ rpc = "idle"
    /\ html_content = <<>>
    /\ url_mapping = <<>>
    /\ entry = 1
    /\ html_in = <<>>
    /\ html_once = <<>>

\* No file operation is modelled step by step.
NoFiles ==
    /\ fpc = "idle"
    /\ target_dir = <<>>
    /\ source_dir = [kind |-> "missing", entries |-> <<>>]
    /\ new_folder = [name |-> <<>>, entries |-> <<>>]
    /\ archive = "none"

\* No ProxyManager is modelled apart from the registry process_all reads.
NoManagers ==
    /\ manager_class = [count |-> 0, regions |-> <<>>, proxies |-> <<>>]
    /\ managers = <<>>

\* No call of _generate_filename is modelled.
NoNaming ==
    naming = [pc |-> "idle", url |-> <<>>, content_type |-> "None",
              filename |-> <<>>]

\* Proxy.__init__: self.process = None
NoProcess == 0

\* No attempt is modelled with its tunnel and sessions.
NoResources ==
    /\ apc = "idle"
    /\ attempt_no = 0
    /\ region = "None"
    /\ process = NoProcess
    /\ tunnels = {}
    /\ sessions = {}
    /\ exiting = "none"

\* No attempt is modelled with its writes to temp/.
NoTemp ==
    /\ tpc = "idle"
    /\ run = 0
    /\ temp = <<>>
    /\ artifacts = <<>>

\* No download is modelled with its writes to the download directory.
NoStore ==
    /\ writers = <<>>
    /\ disk = <<>>
    /\ saved = <<>>
    /\ closed = <<>>

\* The sheet is not modelled row by row.
NoLoad ==
    /\ lpc = "idle"
    /\ sheet = <<>>
    /\ row = 1

Init ==
    /\ \E rows \in Inputs : main_queue = LoadMainQueue(rows)
    /\ queue = <<>>
    /\ side_queue = <<>>
    /\ data = <<>>
    /\ dirs = [l \in Langs |-> {}]
    /\ now = 0
    /\ pc = "start"
    /\ current_time = 0
    /\ pending = <<>>
    /\ last = NoAttempt
    /\ slow = 0
    /\ tries = [w \in {} |-> 0]
    /\ NoCapture
    /\ NoRewrite
    /\ NoFiles
    /\ NoManagers
    /\ NoNaming
    /\ NoLoad
    /\ NoResources
    /\ NoTemp
    /\ NoStore

\* Faulty variant: the copy holds the items in reverse order.
QueueCopyReversed(mq) == [i \in 1..Len(mq) |-> mq[Len(mq) + 1 - i]]

\* self.main_queue[:]
QueueCopy(mq) == mq

\* process_all: queue = self.main_queue[:]
ProcessAllStart ==
    /\ pc = "start"
    /\ queue' = QueueCopy(main_queue)
    /\ pc' = "primary"
    /\ UNCHANGED <<main_queue, side_queue, data, dirs, now, current_time,
                   pending, last, slow, tries>>
    /\ UNCHANGED not_sched

\* Faulty variant: the registry is not consulted before get_proxy.
ProcessPrimaryNoRegistryCheck(S, work, t, probe, sc) ==
    IF work.lang # DefaultLang
    THEN ProcessWithProxy(S, work, GetProxy(work.lang), t, probe, sc)
    ELSE ProcessWithoutProxy(S, work, t, probe, sc)

\* The primary path of one work item: missing proxy, with or without proxy.
ProcessPrimary(S, work, t, probe, sc) ==
    IF work.lang # DefaultLang
    THEN IF work.lang \notin Regions
         THEN [S EXCEPT !.data = Append(@,
                  ResultWorkUnit("error", work, NoPath, CtxNoProxy)),
                  !.outcome = "no_proxy"]
         ELSE ProcessWithProxy(S, work, GetProxy(work.lang), t, probe, sc)
    ELSE ProcessWithoutProxy(S, work, t, probe, sc)

\* Faulty variant: every unit of the delayed queue counts as due.
DueIgnored(unit, time) == TRUE

\* if unit.timestamp <= current_time
Due(unit, time) == unit.timestamp <= time

\* Position in the rest of list(self.side_queue) of the next unit that
\* passes `if unit.timestamp <= current_time` (0: none does).
RECURSIVE NextDue(_, _, _)
NextDue(units, time, i) ==
    IF i > Len(units) THEN 0
    ELSE IF Due(units[i], time) THEN i
    ELSE NextDue(units, time, i + 1)

\* Whether process_all scans the delayed queue after the primary path of an
\* item: the missing proxy `continue`s and a raised exception lands in
\* `except Exception`, both back at the loop head without the scan.
ScansAfter(S) == ~(S.outcome = "no_proxy" \/ S.raised)

\* One iteration of `while len(queue) != 0` up to the first due unit of the
\* scan of the delayed queue; with no unit due the scan is over at once.
PrimaryItem ==
    /\ pc = "primary"
    /\ queue # <<>>
    /\ LET work == Head(queue)
           skip == work.lang # DefaultLang /\ work.lang \notin Regions
       IN  \E d \in IF skip THEN {0} ELSE Elapsed(slow),
              e \in IF skip THEN {[probe |-> "none", sc |-> NoScenario]}
                           ELSE Environments(work.lang) :
             LET t == now + d
                 S == ProcessPrimary(Begin(side_queue, data, dirs), work, t,
                                     e.probe, e.sc)
                 due == ScansAfter(S) /\ NextDue(S.side_queue, t, 1) # 0
             IN  /\ queue' = Tail(queue)
                 /\ side_queue' = S.side_queue
                 /\ data' = S.data
                 /\ dirs' = S.dirs
                 /\ now' = t
                 /\ slow' = Slower(slow, d)
                 /\ last' = AttemptRecord(work, S, data, dirs, side_queue,
                                           Counted(S, work, tries))
                 /\ tries' = TriesAfter(S, work, tries)
                 /\ pc' = IF due THEN "scan" ELSE "primary"
                 /\ current_time' = IF ScansAfter(S) THEN t ELSE current_time
                 /\ pending' = IF due THEN S.side_queue ELSE <<>>
    /\ UNCHANGED main_queue
    /\ UNCHANGED not_sched

\* Faulty variant: every re-attempt goes out directly.
ProcessDelayedDirect(S, unit, t, probe, sc) ==
    ProcessWithoutProxy(S, unit, t, probe, sc)

\* The re-attempt of a delayed unit: by its proxy, with or without tunnel.
ProcessDelayed(S, unit, t, probe, sc) ==
    IF unit.proxy # NoProxy
    THEN ProcessWithProxy(S, unit, NoProxy, t, probe, sc)
    ELSE ProcessWithoutProxy(S, unit, t, probe, sc)

\* The iterations of `for unit in list(self.side_queue)` up to and with the
\* next due unit, which is removed and processed again.  `raised_pc` is
\* where an exception leaving the re-attempt takes process_all, `done_pc`
\* where it goes on when no further unit of the copy is due.
ScanUnit(raised_pc, done_pc) ==
    /\ NextDue(pending, current_time, 1) # 0
    /\ LET i == NextDue(pending, current_time, 1)
           unit == pending[i]
           rest == SubSeq(pending, i + 1, Len(pending))
           more == NextDue(rest, current_time, 1) # 0
       IN  \E d \in Elapsed(slow), e \in Environments(unit.work.lang) :
             LET removed == Remove(side_queue, unit)
                 S == ProcessDelayed(Begin(removed, data, dirs), unit,
                                     now + d, e.probe, e.sc)
             IN  /\ side_queue' = S.side_queue
                 /\ data' = S.data
                 /\ dirs' = S.dirs
                 /\ now' = now + d
                 /\ slow' = Slower(slow, d)
                 /\ last' = AttemptRecord(unit, S, data, dirs, removed,
                                           Counted(S, unit.work, tries))
                 /\ tries' = TriesAfter(S, unit.work, tries)
                 /\ pc' = IF S.raised THEN raised_pc
                          ELSE IF more THEN pc ELSE done_pc
                 /\ pending' = IF S.raised \/ ~more THEN <<>> ELSE rest
    /\ UNCHANGED <<main_queue, queue, current_time>>

\* The scan after a primary item; an exception is caught by the item's
\* `except Exception`, and either way the loop goes on with the next
\* primary item.
InlineScanUnit ==
    /\ pc = "scan"
    /\ ScanUnit("primary", "primary")
    /\ UNCHANGED not_sched

\* `while self.side_queue:` at time `time`: process_all ends on an empty
\* queue; otherwise it takes the time and a copy of the queue and scans
\* it, which with no unit due leads straight to the sleep.
DrainPass(time) ==
    IF side_queue = <<>>
    THEN /\ pc' = "done"
         /\ pending' = <<>>
         /\ UNCHANGED current_time
    ELSE /\ current_time' = time
         /\ pc' = IF NextDue(side_queue, time, 1) # 0
                  THEN "drain_scan" ELSE "drain_sleep"
         /\ pending' = IF NextDue(side_queue, time, 1) # 0
                       THEN side_queue ELSE <<>>

\* `while len(queue) != 0` ends and the drain phase begins.
PrimaryDone ==
    /\ pc = "primary"
    /\ queue = <<>>
    /\ DrainPass(now)
    /\ UNCHANGED <<main_queue, queue, side_queue, data, dirs, now, last, slow,
                   tries>>
    /\ UNCHANGED not_sched

\* The scan of the drain phase; nothing catches an exception here, it
\* leaves process_all.
DrainScanUnit ==
    /\ pc = "drain_scan"
    /\ ScanUnit("raised", "drain_sleep")
    /\ UNCHANGED not_sched

\* Faulty variant: the drain phase does not sleep.
WakeTimeNoSleep(head, time) == time

\* The time time.sleep(sleep_time) ends at, given the head of the queue.
WakeTime(head, time) ==
    IF head.timestamp - time > 0 THEN head.timestamp ELSE time

\* After the drain scan: sleep until the head of the delayed queue is due,
\* then test the queue again.
DrainSleep ==
    /\ pc = "drain_sleep"
    /\ now' = IF side_queue # <<>> THEN WakeTime(side_queue[1], now) ELSE now
    /\ DrainPass(now')
    /\ UNCHANGED <<main_queue, queue, side_queue, data, dirs, last, slow,
                   tries>>
    /\ UNCHANGED not_sched

Next ==
    \/ ProcessAllStart
    \/ PrimaryItem
    \/ PrimaryDone
    \/ InlineScanUnit
    \/ DrainScanUnit
    \/ DrainSleep

Spec == Init /\ [][Next]_vars

\* Largest number of rows loaded when whole runs of process_all are followed
\* to their end.
MaxFairItems == 2

\* The initial states with at most MaxFairItems rows loaded.
FairInit == Init /\ Len(main_queue) <= MaxFairItems

\* process_all runs on: every enabled step is eventually taken.
FairSpec == FairInit /\ [][Next]_vars /\ WF_vars(Next)

\* ------------------------------------------------- capture of one page
\* The pages: one grows after every scroll without end, the others are
\* taller after each of their next `growth` scrolls and then keep their
\* height.  The loop of _get_page_resources reads the heights only to
\* compare them, so `taller` stands for new_height != last_height.
Pages ==
    {[endless |-> TRUE, growth |-> 0]}
    \cup {[endless |-> FALSE, growth |-> g] : g \in 0..MaxGrowth}

\* The local path _download_file returns for a URL.
LocalPath(url) == <<"downloaded", url>>

\* A task submitted to the pool and not yet started.
Submitted ==
    [pc |-> "queued", attempt |-> 0, fetches |-> 0, waits |-> <<>>,
     result |-> "pending"]

\* process_all is not running: the state after construction with no rows.
NoSchedule ==
    /\ main_queue = <<>>
    /\ queue = <<>>
    /\ side_queue = <<>>
    /\ data = <<>>
    /\ dirs = [l \in Langs |-> {}]
    /\ now = 0
    /\ pc = "start"
    /\ current_time = 0
    /\ pending = <<>>
    /\ last = NoAttempt
    /\ slow = 0
    /\ tries = [w \in {} |-> 0]

\* The state after load: WebDriverWait is over and last_height was read;
\* the driver has seen the requests made while the page loaded.
CaptureInit ==
    /\ NoSchedule
    /\ NoRewrite
    /\ NoFiles
    /\ NoManagers
    /\ NoNaming
    /\ NoLoad
    /\ NoResources
    /\ NoTemp
    /\ NoStore
    /\ cpc = "scroll"
    /\ page \in Pages
    /\ taller = FALSE
    /\ urls = {}
    /\ worker = <<>>
    /\ url_to_local = <<>>
    /\ requests = {}
    /\ driver_requests \in SUBSET (1..MaxUrls)
    /\ quiet = 0

\* window.scrollTo(0, document.body.scrollHeight); time.sleep(2)
Scroll ==
    /\ cpc = "scroll"
    /\ cpc' = "measure"
    /\ taller' = (page.endless \/ page.growth > 0)
    /\ page' = IF page.growth > 0 THEN [page EXCEPT !.growth = @ - 1] ELSE page
    /\ UNCHANGED <<urls, worker, url_to_local, requests, driver_requests, quiet>>
    /\ UNCHANGED not_capture

\* new_height is read: `if new_height == last_height: break`, else
\* last_height = new_height and the loop scrolls again.
Measure ==
    /\ cpc = "measure"
    /\ cpc' = IF taller THEN "scroll" ELSE "collect"
    /\ taller' = FALSE
    /\ UNCHANGED <<page, urls, worker, url_to_local, requests, driver_requests,
                   quiet>>
    /\ UNCHANGED not_capture

\* The page makes a further request while _get_page_resources runs.
RequestArrives(u) ==
    /\ cpc \in {"scroll", "measure", "collect", "settle"}
    /\ u \notin driver_requests
    /\ driver_requests' = driver_requests \cup {u}
    /\ UNCHANGED <<cpc, page, taller, urls, worker, url_to_local, requests, quiet>>
    /\ UNCHANGED not_capture

\* requests = self.driver.requests[:]
Collect ==
    /\ cpc = "collect"
    /\ cpc' = "settle"
    /\ requests' = driver_requests
    /\ UNCHANGED <<page, taller, urls, worker, url_to_local, driver_requests, quiet>>
    /\ UNCHANGED not_capture

\* One turn of the `while True` after it: with a different count the list
\* is read again and the loop sleeps; with the same count the loop ends,
\* the requests with a response are collected and download_resources
\* submits one _download_file task per URL.
Settle ==
    /\ cpc = "settle"
    /\ IF Cardinality(requests) # Cardinality(driver_requests)
       THEN /\ requests' = driver_requests
            /\ quiet' = quiet + 1
            /\ UNCHANGED <<cpc, urls, worker>>
       ELSE /\ cpc' = "download"
            /\ urls' = requests
            /\ worker' = [u \in requests |-> Submitted]
            /\ UNCHANGED <<requests, quiet>>
    /\ UNCHANGED <<page, taller, url_to_local, driver_requests>>
    /\ UNCHANGED not_capture

\* `except Exception` of _get_page_resources: a driver call raised and the
\* set collected so far, which is empty, is returned.
CollectRaise ==
    /\ cpc \in {"scroll", "measure", "collect", "settle"}
    /\ cpc' = "download"
    /\ urls' = {}
    /\ worker' = <<>>
    /\ taller' = FALSE
    /\ UNCHANGED <<page, url_to_local, requests, driver_requests, quiet>>
    /\ UNCHANGED not_capture

\* The tasks a pool thread is running.
Running == {u \in DOMAIN worker : worker[u].pc \in {"referer", "retry"}}

\* A pool thread starts the next try of a task, or the first when the pool
\* has a free thread: it builds the headers and is inside
\* self.driver.current_url.
WorkerReferer(u) ==
    /\ cpc = "download"
    /\ \/ worker[u].pc = "retry"
       \/ worker[u].pc = "queued" /\ Cardinality(Running) < max_workers
    /\ worker' = [worker EXCEPT ![u].pc = "referer"]
    /\ UNCHANGED <<cpc, page, taller, urls, url_to_local, requests,
                   driver_requests, quiet>>
    /\ UNCHANGED not_capture

\* Faulty variant: the same wait before every retry.
BackoffFlat(attempt) == retry_delay

\* time.sleep(retry_delay * (attempt + 1))
Backoff(attempt) == retry_delay * (attempt + 1)

\* What a try of _download_file meets: the file is fetched and written, or
\* requests raises a RequestException, or something else raises (the
\* driver, open or the write).
Fetches == {"ok", "request_error", "error"}

\* One try of _download_file(url) from the request on.
DownloadTry(w, fetch) ==
    LET w1 == [w EXCEPT !.fetches = @ + 1]
    IN  CASE fetch = "ok" ->
               [w1 EXCEPT !.pc = "done", !.result = "ok"]
          [] fetch = "request_error" ->
               IF w.attempt = max_retries - 1
               THEN [w1 EXCEPT !.pc = "done", !.result = "none"]
               ELSE [w1 EXCEPT !.pc = "retry", !.attempt = @ + 1,
                               !.waits = Append(@, Backoff(w.attempt))]
          [] OTHER ->
               [w1 EXCEPT !.pc = "done", !.result = "raised"]

\* The thread leaves the driver, sends the request and handles its end.
WorkerFetch(u) ==
    /\ cpc = "download"
    /\ worker[u].pc = "referer"
    /\ \E fetch \in Fetches :
         worker' = [worker EXCEPT ![u] = DownloadTry(worker[u], fetch)]
    /\ UNCHANGED <<cpc, page, taller, urls, url_to_local, requests,
                   driver_requests, quiet>>
    /\ UNCHANGED not_capture

\* Faulty variant: no `except Exception` around future.result().
FutureResultNoExcept(mapping, u, result) ==
    CASE result = "ok" ->
           [mapping |-> [v \in DOMAIN mapping \cup {u} |->
                           IF v = u THEN LocalPath(u) ELSE mapping[v]],
            raised |-> FALSE]
      [] result = "raised" -> [mapping |-> mapping, raised |-> TRUE]
      [] OTHER -> [mapping |-> mapping, raised |-> FALSE]

\* download_resources, one turn of `for future in as_completed(futures)`:
\* a result that is not None enters the mapping, an exception is logged.
FutureResult(mapping, u, result) ==
    CASE result = "ok" ->
           [mapping |-> [v \in DOMAIN mapping \cup {u} |->
                           IF v = u THEN LocalPath(u) ELSE mapping[v]],
            raised |-> FALSE]
      [] OTHER -> [mapping |-> mapping, raised |-> FALSE]

\* The main thread takes a completed future.
Gather(u) ==
    /\ cpc = "download"
    /\ worker[u].pc = "done"
    /\ LET r == FutureResult(url_to_local, u, worker[u].result)
       IN  /\ url_to_local' = r.mapping
           /\ cpc' = IF r.raised THEN "failed" ELSE cpc
    /\ worker' = [worker EXCEPT ![u].pc = "gathered"]
    /\ UNCHANGED <<page, taller, urls, requests, driver_requests, quiet>>
    /\ UNCHANGED not_capture

\* Every future was taken: download_resources returns url_to_local.
Return ==
    /\ cpc = "download"
    /\ \A u \in DOMAIN worker : worker[u].pc = "gathered"
    /\ cpc' = "returned"
    /\ UNCHANGED <<page, taller, urls, worker, url_to_local, requests,
                   driver_requests, quiet>>
    /\ UNCHANGED not_capture

CaptureNext ==
    \/ Scroll
    \/ Measure
    \/ \E u \in 1..MaxUrls : RequestArrives(u)
    \/ Collect
    \/ Settle
    \/ CollectRaise
    \/ \E u \in 1..MaxUrls : u \in DOMAIN worker /\ WorkerReferer(u)
    \/ \E u \in 1..MaxUrls : u \in DOMAIN worker /\ WorkerFetch(u)
    \/ \E u \in 1..MaxUrls : u \in DOMAIN worker /\ Gather(u)
    \/ Return

CaptureSpec == CaptureInit /\ [][CaptureNext]_vars

\* The capture runs on: the main thread and the pool threads keep taking
\* their steps.
CaptureFairSpec == CaptureSpec /\ WF_vars(CaptureNext)

\* ------------------------------------------------------ file operations
\* A directory listing maps the names of its entries to "dir" or "file".
\* Names are sequences of characters.
DigitChars == <<"0", "1", "2", "3", "4", "5", "6", "7", "8", "9">>

\* item.name.isdigit()
IsDigitName(name) ==
    /\ name # <<>>
    /\ \A i \in 1..Len(name) : \E d \in 1..Len(DigitChars) : DigitChars[d] = name[i]

\* int(item.name)
RECURSIVE IntOf(_)
IntOf(name) ==
    IF name = <<>> THEN 0
    ELSE IntOf(SubSeq(name, 1, Len(name) - 1)) * 10
         + (CHOOSE d \in 0..9 : DigitChars[d + 1] = name[Len(name)])

\* str(next_number)
RECURSIVE StrOf(_)
StrOf(n) ==
    IF n < 10 THEN <<DigitChars[n + 1]>>
    ELSE StrOf(n \div 10) \o <<DigitChars[(n % 10) + 1]>>

\* existing_folders: the numbers of the entries that are directories with
\* an all-digit name.
ExistingFolders(listing) ==
    {IntOf(name) : name \in {x \in DOMAIN listing :
                                 listing[x] = "dir" /\ IsDigitName(x)}}

\* The listings of the target directory and of the working directory.
TargetNames == {<<"1">>, <<"2">>, <<"4">>, <<"0", "9">>, <<"x">>, <<"5">>}
SourceNames == {<<"a">>, <<"b">>}
Listings(names) ==
    UNION {[present -> {"dir", "file"}] : present \in SUBSET names}
SourceDirs ==
    {[kind |-> "dir", entries |-> l] : l \in Listings(SourceNames)}
    \cup {[kind |-> k, entries |-> <<>>] : k \in {"file", "missing"}}

\* The entries of a listing of one kind.
Only(listing, kind) ==
    [name \in {x \in DOMAIN listing : listing[x] = kind} |-> listing[name]]

\* A working directory and a target directory exist on disk; one of the
\* operations is about to be called on them.
FilesInit ==
    /\ NoSchedule
    /\ NoCapture
    /\ NoRewrite
    /\ NoManagers
    /\ NoNaming
    /\ NoLoad
    /\ NoResources
    /\ NoTemp
    /\ NoStore
    /\ fpc = "ready"
    /\ target_dir \in Listings(TargetNames)
    /\ source_dir \in SourceDirs
    /\ new_folder = [name |-> <<>>, entries |-> <<>>]
    /\ archive = "none"

not_files == <<sched_vars, capture_vars, rewrite_vars, proxy_vars,
               naming_vars, load_vars, resource_vars, temp_vars, store_vars>>

\* DirManager.move_to_numbered_dir(source_dir, target_dir)
MoveToNumberedDir ==
    /\ fpc = "ready"
    /\ IF source_dir.kind # "dir"
       THEN \* FileNotFoundError, NotADirectoryError
            /\ fpc' = "raised"
            /\ UNCHANGED <<target_dir, source_dir, new_folder>>
       ELSE LET name == StrOf(NextNumber(ExistingFolders(target_dir)))
            IN  IF name \in DOMAIN target_dir
                THEN \* new_folder.mkdir(): FileExistsError
                     /\ fpc' = "raised"
                     /\ new_folder' = [name |-> name, entries |-> <<>>]
                     /\ UNCHANGED <<target_dir, source_dir>>
                ELSE /\ fpc' = "moved"
                     /\ target_dir' = [x \in DOMAIN target_dir \cup {name} |->
                                         IF x = name THEN "dir" ELSE target_dir[x]]
                     /\ new_folder' = [name |-> name,
                                       entries |-> Only(source_dir.entries, "file")]
                     /\ source_dir' = [source_dir EXCEPT
                                         !.entries = Only(@, "dir")]
    /\ UNCHANGED archive
    /\ UNCHANGED not_files

\* UndetectBrowser.move_temp_to_numbered_folder(target_dir): every
\* exception is raised again as OSError.
MoveTempToNumberedFolder ==
    /\ fpc = "ready"
    /\ IF source_dir.kind # "dir"
       THEN /\ fpc' = "raised"
            /\ UNCHANGED <<target_dir, source_dir, new_folder>>
       ELSE IF DOMAIN source_dir.entries = {}
       THEN \* return target_path / "0"
            /\ fpc' = "nothing_moved"
            /\ new_folder' = [name |-> <<"0">>, entries |-> <<>>]
            /\ UNCHANGED <<target_dir, source_dir>>
       ELSE LET name == StrOf(NextNumber(ExistingFolders(target_dir)))
            IN  IF name \in DOMAIN target_dir
                THEN \* shutil.move onto a file of that name
                     /\ fpc' = "raised"
                     /\ new_folder' = [name |-> name, entries |-> <<>>]
                     /\ UNCHANGED <<target_dir, source_dir>>
                ELSE \* the directory is renamed and an empty temp made
                     /\ fpc' = "moved"
                     /\ target_dir' = [x \in DOMAIN target_dir \cup {name} |->
                                         IF x = name THEN "dir" ELSE target_dir[x]]
                     /\ new_folder' = [name |-> name, entries |-> source_dir.entries]
                     /\ source_dir' = [source_dir EXCEPT !.entries = <<>>]
    /\ UNCHANGED archive
    /\ UNCHANGED not_files

\* What shutil.make_archive does: it writes the archive, or raises, or
\* returns a path at which no file is.
ZipOutcomes == {"ok", "raise", "no_file"}

\* make_archive up to the return of shutil.make_archive.
MakeArchiveZip ==
    /\ fpc = "ready"
    /\ IF source_dir.kind # "dir"
       THEN \* FileNotFoundError, NotADirectoryError, raised as RuntimeError
            /\ fpc' = "raised"
            /\ UNCHANGED archive
       ELSE \E outcome \in ZipOutcomes :
              /\ fpc' = IF outcome = "raise" THEN "raised" ELSE "zipped"
              /\ archive' = IF outcome = "ok" THEN "exists" ELSE "none"
    /\ UNCHANGED <<target_dir, source_dir, new_folder>>
    /\ UNCHANGED not_files

\* Faulty variant: the archive is not looked for.
ArchiveCreatedUnchecked(arch) == TRUE

\* Path(archive_full_path).exists()
ArchiveCreated(arch) == arch = "exists"

\* make_archive from the check of the archive on: RuntimeError without an
\* archive, else shutil.rmtree(folder_path), which removes the folder or
\* raises.
MakeArchiveRemove ==
    /\ fpc = "zipped"
    /\ IF ~ArchiveCreated(archive)
       THEN /\ fpc' = "raised"
            /\ UNCHANGED source_dir
       ELSE \/ /\ fpc' = "archived"
               /\ source_dir' = [kind |-> "missing", entries |-> <<>>]
            \/ /\ fpc' = "raised"
               /\ \E left \in SUBSET DOMAIN source_dir.entries :
                     source_dir' = [source_dir EXCEPT !.entries =
                                      [x \in left |-> source_dir.entries[x]]]
    /\ UNCHANGED <<target_dir, new_folder, archive>>
    /\ UNCHANGED not_files

FilesNext ==
    \/ MoveToNumberedDir
    \/ MoveTempToNumberedFolder
    \/ MakeArchiveZip
    \/ MakeArchiveRemove

FilesSpec == FilesInit /\ [][FilesNext]_vars

\* -------------------------------------------------------- ProxyManager
\* The regions and hosts of the proxy files.
Countries == {"de", "fr"}
Hosts == {"h1", "h2"}

\* The attribute `name` as seen through instance i: the instance's own
\* attribute when it has one, else the attribute of the class.
Attribute(i, name) ==
    IF name \in managers[i].own THEN managers[i][name] ELSE manager_class[name]

\* __init__ of the processes' first WebsiteProcessor has not run yet: the
\* class body has made count = 0, regions = [], proxies = {}.
ProxyInit ==
    /\ NoSchedule
    /\ NoCapture
    /\ NoRewrite
    /\ NoFiles
    /\ NoNaming
    /\ NoLoad
    /\ NoResources
    /\ NoTemp
    /\ NoStore
    /\ manager_class = [count |-> 0, regions |-> <<>>, proxies |-> <<>>]
    /\ managers = <<>>

\* proxy_manager = ProxyManager(): the class defines no __init__, the new
\* instance has no attribute of its own.
NewManager ==
    /\ Len(managers) < MaxManagers
    /\ managers' = Append(managers, [own |-> {}, count |-> 0])
    /\ UNCHANGED manager_class
    /\ UNCHANGED <<sched_vars, capture_vars, rewrite_vars, files_vars,
                   naming_vars, load_vars, resource_vars, temp_vars, store_vars>>

\* add_proxy(country_name, value) on instance i: self.proxies and
\* self.regions are found on the class and changed in place; the
\* augmented assignment to self.count makes an attribute of the instance.
AddProxy(i, country_name, value) ==
    /\ i \in 1..Len(managers)
    /\ Len(manager_class.regions) < MaxAdds
    /\ manager_class' =
          [manager_class EXCEPT
              !.proxies = [c \in DOMAIN @ \cup {country_name} |->
                             IF c = country_name THEN value ELSE @[c]],
              !.regions = Append(@, country_name)]
    /\ managers' = [managers EXCEPT ![i] =
                       [own |-> @.own \cup {"count"},
                        count |-> Attribute(i, "count") + 1]]
    /\ UNCHANGED <<sched_vars, capture_vars, rewrite_vars, files_vars,
                   naming_vars, load_vars, resource_vars, temp_vars, store_vars>>

ProxyNext ==
    \/ NewManager
    \/ \E i \in 1..MaxManagers, c \in Countries, h \in Hosts :
          AddProxy(i, c, [region |-> c, host |-> h])

ProxySpec == ProxyInit /\ [][ProxyNext]_vars

\* ---------------------------------------------------- _load_main_queue
\* The cells of a row: column 3 (link, None when empty), column 16 (the
\* "already processed" marker) and column 5 (region).
LinkCells == {"None", "http://a", "b"}
LangCells == {"ru", "DE"}
Rows == [link : LinkCells, marked : BOOLEAN, lang : LangCells]
Sheets == UNION {[1..n -> Rows] : n \in 0..MaxRows}

\* self.sheet.cell(row=row, column=3).value: None below the last row.
CellLink(sh, r) == IF r \in 1..Len(sh) THEN sh[r].link ELSE "None"

\* link if link.startswith("http") else f"https://{link}"
NormalLink(link) == IF link = "b" THEN "https://b" ELSE link

\* str(...).lower()
LowerLang(lang) == IF lang = "DE" THEN "de" ELSE lang

\* Faulty variant: the marker is not looked at.
IsDownloadedIgnored(cells) == FALSE

\* is_downloaded = bool(self.sheet.cell(row=row, column=16).value)
IsDownloaded(cells) == cells.marked

\* not_load: what _load_main_queue leaves alone apart from main_queue.
not_load == <<queue, side_queue, data, dirs, now, pc, current_time, pending,
              last, slow, tries, capture_vars, rewrite_vars, files_vars, proxy_vars,
              naming_vars, resource_vars, temp_vars, store_vars>>

\* __init__ has opened the sheet and made the empty queues.
LoadInit ==
    /\ NoSchedule
    /\ NoCapture
    /\ NoRewrite
    /\ NoFiles
    /\ NoManagers
    /\ NoNaming
    /\ NoResources
    /\ NoTemp
    /\ NoStore
    /\ lpc = "load"
    /\ sheet \in Sheets
    /\ row = 1

\* One turn of `while True`: an empty link ends the loop, a marked row is
\* passed over, any other row becomes a WorkUnit at the end of the queue.
LoadRow ==
    /\ lpc = "load"
    /\ IF CellLink(sheet, row) = "None"
       THEN /\ lpc' = "loaded"
            /\ UNCHANGED <<row, main_queue>>
       ELSE IF IsDownloaded(sheet[row])
       THEN /\ row' = row + 1
            /\ UNCHANGED <<lpc, main_queue>>
       ELSE /\ main_queue' = Append(main_queue,
                   WorkUnit(NormalLink(sheet[row].link), LowerLang(sheet[row].lang)))
            /\ row' = row + 1
            /\ UNCHANGED lpc
    /\ UNCHANGED sheet
    /\ UNCHANGED not_load

LoadNext == LoadRow

LoadSpec == LoadInit /\ [][LoadNext]_vars

\* ------------------------------------------------ replace_urls_in_html
\* A text is a sequence of characters.  The characters of the model: the
\* two quotes, letters, and the separators the method looks at.
DQ == "\""
SQ == "'"
IsQuote(c) == c \in {DQ, SQ}

\* [a-zA-Z0-9], for the letters of the model.
Alnum(c) == c \in {"a", "b", "c", "h", "A", "B", "C"}

\* re.IGNORECASE
Lower(c) ==
    CASE c = "A" -> "a" [] c = "B" -> "b" [] c = "C" -> "c" [] OTHER -> c
LowerStr(str) == [i \in 1..Len(str) |-> Lower(str[i])]

\* str.find and str.rfind of one character, 0 when it does not occur.
FirstIndex(str, c) ==
    IF \E i \in 1..Len(str) : str[i] = c
    THEN CHOOSE i \in 1..Len(str) :
            str[i] = c /\ \A k \in 1..(i - 1) : str[k] # c
    ELSE 0
LastIndex(str, c) ==
    IF \E i \in 1..Len(str) : str[i] = c
    THEN CHOOSE i \in 1..Len(str) :
            str[i] = c /\ \A k \in (i + 1)..Len(str) : str[k] # c
    ELSE 0

\* ((target_value.split("?"))[0].split("/")[-1]).rsplit('.', 1)[0]
FilenameOf(url) ==
    LET q == FirstIndex(url, "?")
        before == IF q = 0 THEN url ELSE SubSeq(url, 1, q - 1)
        name == SubSeq(before, LastIndex(before, "/") + 1, Len(before))
        dot == LastIndex(name, ".")
    IN  IF dot = 0 THEN name ELSE SubSeq(name, 1, dot - 1)

\* os.path.basename
Basename(path) == SubSeq(path, LastIndex(path, "/") + 1, Len(path))

\* _generate_filename(url, content_type): the basename of the URL path, or
\* a hash when it is empty, with the extension of the content type appended
\* unless the name ends with it (`ext` is empty for a type without entry).
GenerateFilename(url, ext) ==
    LET q == FirstIndex(url, "?")
        path == IF q = 0 THEN url ELSE SubSeq(url, 1, q - 1)
        base == Basename(path)
        name == IF base = <<>> THEN <<"h">> ELSE base
        ends == /\ Len(name) >= Len(ext)
                /\ SubSeq(name, Len(name) - Len(ext) + 1, Len(name)) = ext
    IN  IF ext # <<>> /\ ~ends THEN name \o ext ELSE name

\* The content between quotes matches
\* [^"']*?<filename>[^"']*?\.[a-zA-Z0-9]+ : the filename, in any case,
\* lies before the last dot, and letters or digits follow that dot.
MatchesContent(c, filename) ==
    LET d == LastIndex(c, ".")
    IN  /\ d > 0
        /\ d < Len(c)
        /\ \A k \in (d + 1)..Len(c) : Alnum(c[k])
        /\ \E p \in 1..(d - 1) :
              /\ p + Len(filename) - 1 <= d - 1
              /\ LowerStr(SubSeq(c, p, p + Len(filename) - 1)) = LowerStr(filename)

\* The position of the first quote after position i, 0 when there is none.
NextQuote(h, i) ==
    IF \E j \in (i + 1)..Len(h) : IsQuote(h[j])
    THEN CHOOSE j \in (i + 1)..Len(h) :
            IsQuote(h[j]) /\ \A k \in (i + 1)..(j - 1) : ~IsQuote(h[k])
    ELSE 0

\* The pattern (["'])(...)\1 matches from position i: a quote, a matching
\* content without quotes, and the same quote again.
MatchAt(h, i, filename) ==
    /\ IsQuote(h[i])
    /\ NextQuote(h, i) # 0
    /\ h[NextQuote(h, i)] = h[i]
    /\ MatchesContent(SubSeq(h, i + 1, NextQuote(h, i) - 1), filename)

\* The quoted contents pattern.findall(html_content) finds: the pattern is
\* tried from left to right and a match is not searched again.
RECURSIVE FindAll(_, _, _)
FindAll(h, i, filename) ==
    IF i > Len(h) THEN <<>>
    ELSE IF MatchAt(h, i, filename)
    THEN <<SubSeq(h, i + 1, NextQuote(h, i) - 1)>>
         \o FindAll(h, NextQuote(h, i) + 1, filename)
    ELSE FindAll(h, i + 1, filename)

\* str.replace(old, new): every occurrence, from left to right, without
\* overlap.
RECURSIVE Replace(_, _, _)
Replace(str, old, new) ==
    IF Len(str) < Len(old) THEN str
    ELSE IF SubSeq(str, 1, Len(old)) = old
    THEN new \o Replace(SubSeq(str, Len(old) + 1, Len(str)), old, new)
    ELSE <<Head(str)>> \o Replace(Tail(str), old, new)

\* One iteration of `for target_value, local_path in url_mapping.items()`:
\* an empty filename is skipped; of the matches only matches[0][1:], the
\* content of the first, is replaced by the basename of the local path.
ReplaceEntry(h, target_value, local_path) ==
    LET filename == FilenameOf(target_value)
        matches == FindAll(h, 1, filename)
    IN  IF filename = <<>> THEN h
        ELSE IF Len(matches) # 0
        THEN Replace(h, matches[1], Basename(local_path))
        ELSE h

\* The quoted strings of the HTML texts.
Contents ==
    {<<"a", ".", "b">>,
     <<"/", "a", ".", "b">>,
     <<"a", ".", "c">>,
     <<"A", ".", "b">>,
     <<"b", ".", "c">>,
     <<"a">>}
Quoted(q, c) == <<q>> \o c \o <<q>>
\* <base href="/a.b">
BaseTag ==
    <<"<", "b", "a", "s", "e", " ", "h", "r", "e", "f", "=">>
    \o Quoted(DQ, <<"/", "a", ".", "b">>) \o <<">">>
Pieces ==
    {Quoted(DQ, c) : c \in Contents} \cup {Quoted(SQ, <<"a", ".", "b">>)}
    \cup {BaseTag}

\* The HTML texts: up to MaxRefs quoted strings or tags, a blank between
\* two.
RECURSIVE Join(_)
Join(pieces) ==
    IF Len(pieces) = 0 THEN <<>>
    ELSE IF Len(pieces) = 1 THEN pieces[1]
    ELSE pieces[1] \o <<" ">> \o Join(Tail(pieces))
Htmls == {Join(ps) : ps \in UNION {[1..n -> Pieces] : n \in 1..MaxRefs}}

\* The resources: a URL and the extension of the content type it was served
\* with; the local path is the one _download_file gives it in directory d.
ResourceUrls ==
    {<<"/", "a", ".", "b">>,
     <<"/", "a">>,
     <<"/", "b", ".", "c", "?", "a">>,
     <<"/">>}
Extensions == {<<>>, <<".", "b">>}
Resources ==
    {[target_value |-> u, local_path |-> <<"d", "/">> \o GenerateFilename(u, e)] :
        u \in ResourceUrls, e \in Extensions}

\* The mappings: up to MaxEntries resources with distinct URLs, in the
\* order the dict holds them.
Mappings ==
    {m \in UNION {[1..n -> Resources] : n \in 1..MaxEntries} :
        \A i, j \in 1..Len(m) : i # j => m[i].target_value # m[j].target_value}

\* replace_urls_in_html(html, mapping) is called, and later called again
\* with its own output and the same mapping.
RewriteInit ==
    /\ NoSchedule
    /\ NoCapture
    /\ NoFiles
    /\ NoManagers
    /\ NoNaming
    /\ NoLoad
    /\ NoResources
    /\ NoTemp
    /\ NoStore
    /\ rpc = "first"
    /\ html_in \in Htmls
    /\ html_content = html_in
    /\ url_mapping \in Mappings
    /\ entry = 1
    /\ html_once = <<>>

\* The loop over the mapping handles its next entry.
RewriteEntry ==
    /\ rpc \in {"first", "second"}
    /\ entry <= Len(url_mapping)
    /\ html_content' = ReplaceEntry(html_content, url_mapping[entry].target_value,
                                    url_mapping[entry].local_path)
    /\ entry' = entry + 1
    /\ UNCHANGED <<rpc, url_mapping, html_in, html_once>>
    /\ UNCHANGED not_rewrite

\* return html_content; the second call starts from the returned text.
RewriteReturn ==
    /\ rpc \in {"first", "second"}
    /\ entry > Len(url_mapping)
    /\ rpc' = IF rpc = "first" THEN "second" ELSE "done"
    /\ html_once' = IF rpc = "first" THEN html_content ELSE html_once
    /\ entry' = 1
    /\ UNCHANGED <<html_content, url_mapping, html_in>>
    /\ UNCHANGED not_rewrite

RewriteNext ==
    \/ RewriteEntry
    \/ RewriteReturn

RewriteSpec == RewriteInit /\ [][RewriteNext]_vars

\* --------------------------------------------------- _generate_filename
\* extensions = {...}: the extension of a content type.
extensions ==
    ("text/javascript" :> <<".", "j", "s">>) @@
    ("text/css" :> <<".", "c", "s", "s">>) @@
    ("image/png" :> <<".", "p", "n", "g">>) @@
    ("image/jpeg" :> <<".", "j", "p", "e", "g">>) @@
    ("image/webp" :> <<".", "w", "e", "b", "p">>) @@
    ("font/woff2" :> <<".", "w", "o", "f", "f", "2">>) @@
    ("application/json" :> <<".", "j", "s", "o", "n">>) @@
    ("text/html" :> <<".", "h", "t", "m", "l">>) @@
    ("application/xml" :> <<".", "x", "m", "l">>)

\* content_type.split(';')[0].strip() for the header values of the model.
MediaType(header) ==
    CASE header = "text/css; charset=utf-8" -> "text/css"
      [] header = "image/jpeg;q=1" -> "image/jpeg"
      [] OTHER -> header

\* response.headers.get('content-type'): a type of the table, with or
\* without parameters, another type, or no header at all.
ContentTypeHeaders ==
    DOMAIN extensions
    \cup {"text/css; charset=utf-8", "image/jpeg;q=1",
          "application/octet-stream", "None"}

\* ext = extensions.get(content_type, ''), and no extension at all without
\* a content type.
ExtensionFor(header) ==
    IF header = "None" THEN <<>>
    ELSE IF MediaType(header) \in DOMAIN extensions
    THEN extensions[MediaType(header)]
    ELSE <<>>

\* The URLs a filename is generated for: path and query.
NamedUrls ==
    {<<"/", "p", ".", "j", "p", "g">>,
     <<"/", "p", ".", "j", "p", "e", "g">>,
     <<"/", "p">>,
     <<"/">>,
     <<"/", "s", ".", "c", "s", "s">>,
     <<"/", "s", ".", "j", "s", "?", "v">>,
     <<"/", "d", "/", "p", ".", "p", "n", "g">>,
     <<"/", "d", "/">>}

\* _download_file is about to call _generate_filename(url, content_type).
NamingInit ==
    /\ NoSchedule
    /\ NoCapture
    /\ NoRewrite
    /\ NoFiles
    /\ NoManagers
    /\ NoLoad
    /\ NoResources
    /\ NoTemp
    /\ NoStore
    /\ \E u \in NamedUrls, h \in ContentTypeHeaders :
          naming = [pc |-> "call", url |-> u, content_type |-> h,
                    filename |-> <<>>]

\* filename = self._generate_filename(url, content_type)
GenerateName ==
    /\ naming.pc = "call"
    /\ naming' = [naming EXCEPT
                     !.pc = "returned",
                     !.filename = GenerateFilename(naming.url,
                                      ExtensionFor(naming.content_type))]
    /\ UNCHANGED <<sched_vars, capture_vars, rewrite_vars, files_vars,
                   proxy_vars, load_vars, resource_vars, temp_vars, store_vars>>

NamingNext == GenerateName

NamingSpec == NamingInit /\ [][NamingNext]_vars

\* ------------------------------------------- tunnel and browser sessions
\* The attempts of a run, one after another, each with the tunnel and the
\* sessions it opens: _process_with_proxy or _process_without_proxy, then
\* _process_browser.
MaxAttempts == 3

\* Proxy.is_running(): a process was started and psutil finds it running.
IsRunning(proc, running) == proc # NoProcess /\ proc \in running

\* Proxy.start(): refuses when the object's process runs; otherwise writes
\* the configuration and spawns the core with Popen (pid), or an exception
\* is caught and nothing was spawned.
StartOutcomes == {"spawned", "error"}
Start(proc, running, pid, outcome) ==
    IF IsRunning(proc, running)
    THEN [ret |-> FALSE, process |-> proc, running |-> running]
    ELSE IF outcome = "spawned"
    THEN [ret |-> TRUE, process |-> pid, running |-> running \cup {pid}]
    ELSE [ret |-> FALSE, process |-> proc, running |-> running]

\* Proxy.stop(): nothing to do when the process does not run; terminate()
\* and wait(5), kill() after TimeoutExpired, then self.process = None; any
\* other exception is caught, and the process and self.process stay.
StopOutcomes == {"terminated", "killed", "error"}
Stop(proc, running, outcome) ==
    IF ~IsRunning(proc, running)
    THEN [ret |-> FALSE, process |-> proc, running |-> running]
    ELSE IF outcome \in {"terminated", "killed"}
    THEN [ret |-> TRUE, process |-> NoProcess, running |-> running \ {proc}]
    ELSE [ret |-> FALSE, process |-> proc, running |-> running]

\* Faulty variant: __exit__ leaves the session open when the body raised.
CloseUnlessRaised(open, kind, body) ==
    IF body = "raise" THEN open ELSE open \ {kind}

\* UndetectBrowser.__exit__ -> close() -> _safe_quit(): driver.quit(), with
\* the service process killed when quit() raises, and self.driver = None in
\* `finally`, whatever the body of the `with` did.
Close(open, kind, body) == open \ {kind}

ResourceInit ==
    /\ NoSchedule
    /\ NoCapture
    /\ NoRewrite
    /\ NoFiles
    /\ NoManagers
    /\ NoNaming
    /\ NoLoad
    /\ NoResources
    /\ NoTemp
    /\ NoStore

not_resource == <<sched_vars, capture_vars, rewrite_vars, files_vars,
                  proxy_vars, naming_vars, load_vars, temp_vars, store_vars>>

\* process_all hands the next unit to _process_with_proxy (a region with a
\* proxy) or to _process_without_proxy (the default region).
StartAttempt ==
    /\ apc = "idle"
    /\ attempt_no < MaxAttempts
    /\ attempt_no' = attempt_no + 1
    /\ \E l \in Regions \cup {DefaultLang} :
          /\ region' = l
          /\ apc' = IF l # DefaultLang THEN "enter" ELSE "probe"
    /\ exiting' = "none"
    /\ process' = NoProcess
    /\ UNCHANGED <<tunnels, sessions>>
    /\ UNCHANGED not_resource

\* with Proxy(...): a new Proxy object, and __enter__ calls start() and
\* does not look at what it returns.
ProxyEnter ==
    /\ apc = "enter"
    /\ \E o \in StartOutcomes :
          LET r == Start(NoProcess, tunnels, attempt_no, o)
          IN  /\ process' = r.process
              /\ tunnels' = r.running
    /\ apc' = "probe"
    /\ UNCHANGED <<attempt_no, region, sessions, exiting>>
    /\ UNCHANGED not_resource

\* The attempt leaves _process_browser or the probe: inside `with Proxy`
\* the way out is through Proxy.__exit__.
Leave(how) ==
    /\ exiting' = how
    /\ apc' = IF region # DefaultLang THEN "exit" ELSE "idle"

\* check_site_availability: the link answers, does not answer, or the
\* probe raises.
Probe ==
    /\ apc = "probe"
    /\ \E p \in Probes :
          CASE p = "ok" ->
                 /\ apc' = IF ComparesTitles([lang |-> region])
                           THEN "direct" ELSE "mobile"
                 /\ UNCHANGED exiting
            [] p = "unavailable" -> Leave("unavailable")
            [] OTHER -> Leave("exception")
    /\ UNCHANGED <<attempt_no, region, process, tunnels, sessions>>
    /\ UNCHANGED not_resource

\* Browser(proxy=None, headless=True): the constructor starts the driver
\* or raises.
DirectCreate ==
    /\ apc = "direct"
    /\ \/ /\ sessions' = sessions \cup {"direct"}
          /\ apc' = "direct_body"
          /\ UNCHANGED exiting
       \/ /\ Leave("exception")
          /\ UNCHANGED sessions
    /\ UNCHANGED <<attempt_no, region, process, tunnels>>
    /\ UNCHANGED not_resource

\* The body of `with Browser(...) as browser` (goto, title) and the end of
\* the `with`.
DirectExit ==
    /\ apc = "direct_body"
    /\ \E body \in {"ok", "raise"} :
          /\ sessions' = Close(sessions, "direct", body)
          /\ IF body = "raise"
             THEN Leave("exception")
             ELSE /\ apc' = "mobile"
                  /\ UNCHANGED exiting
    /\ UNCHANGED <<attempt_no, region, process, tunnels>>
    /\ UNCHANGED not_resource

\* mobile_browser = MobileBrowser(...)
MobileCreate ==
    /\ apc = "mobile"
    /\ \/ /\ sessions' = sessions \cup {"mobile"}
          /\ apc' = "mobile_body"
          /\ UNCHANGED exiting
       \/ /\ Leave("exception")
          /\ UNCHANGED sessions
    /\ UNCHANGED <<attempt_no, region, process, tunnels>>
    /\ UNCHANGED not_resource

\* The body of `with mobile_browser as browser` and the end of the `with`:
\* the titles match and the method returns, a step raises, or the capture
\* is made and the steps after the `with` pass or raise.
MobileExit ==
    /\ apc = "mobile_body"
    /\ \E body \in {"ok", "cloak", "raise", "tail_raise"} :
          /\ body = "cloak" => ComparesTitles([lang |-> region])
          /\ sessions' = Close(sessions, "mobile", body)
          /\ Leave(CASE body = "ok" -> "ok"
                     [] body = "cloak" -> "cloak"
                     [] OTHER -> "exception")
    /\ UNCHANGED <<attempt_no, region, process, tunnels>>
    /\ UNCHANGED not_resource

\* The end of `with Proxy(...)`: __exit__ calls stop() and does not look at
\* what it returns.
ProxyExit ==
    /\ apc = "exit"
    /\ \E o \in StopOutcomes :
          LET r == Stop(process, tunnels, o)
          IN  /\ process' = r.process
              /\ tunnels' = r.running
    /\ apc' = "idle"
    /\ UNCHANGED <<attempt_no, region, sessions, exiting>>
    /\ UNCHANGED not_resource

ResourceNext ==
    \/ StartAttempt
    \/ ProxyEnter
    \/ Probe
    \/ DirectCreate
    \/ DirectExit
    \/ MobileCreate
    \/ MobileExit
    \/ ProxyExit

ResourceSpec == ResourceInit /\ [][ResourceNext]_vars

\* ------------------------------------------------- the working directory
\* The attempts of a run that reach download_website, one after another,
\* with what each writes to temp/ and what the successful ones move to a
\* numbered directory.
MaxRuns == 3

\* A file of temp/ is written, or written over, by attempt n.
Written(dir, name, n) ==
    [f \in DOMAIN dir \cup {name} |-> IF f = name THEN n ELSE dir[f]]

TempInit ==
    /\ NoSchedule
    /\ NoCapture
    /\ NoRewrite
    /\ NoFiles
    /\ NoManagers
    /\ NoNaming
    /\ NoLoad
    /\ NoResources
    /\ NoTemp
    /\ NoStore

not_temp == <<sched_vars, capture_vars, rewrite_vars, files_vars, proxy_vars,
              naming_vars, load_vars, resource_vars, store_vars>>

\* An attempt gets as far as `if not browser.download_website("website")`;
\* temp/ is as the attempts before left it.
TempStart ==
    /\ tpc = "idle"
    /\ run < MaxRuns
    /\ run' = run + 1
    /\ tpc' = "website"
    /\ UNCHANGED <<temp, artifacts>>
    /\ UNCHANGED not_temp

\* browser.download_website("website") leaves temp/website.zip or raises;
\* DirManager.clear_directory(Path("temp")) runs only when it returns a
\* false value.
TempWebsite ==
    /\ tpc = "website"
    /\ \E tl \in {"ok", "capture_raise", "archive_raise"} :
          CASE DownloadWebsite(tl) = "raise" ->
                 /\ tpc' = "idle"
                 /\ UNCHANGED temp
            [] DownloadWebsite(tl) = "false" ->
                 /\ tpc' = "idle"
                 /\ temp' = <<>>
            [] OTHER ->
                 /\ tpc' = "pdf"
                 /\ temp' = Written(temp, "website.zip", run)
    /\ UNCHANGED <<run, artifacts>>
    /\ UNCHANGED not_temp

\* browser.pdf("temp/screenshot.pdf")
TempPdf ==
    /\ tpc = "pdf"
    /\ \/ /\ tpc' = "image"
          /\ temp' = Written(temp, "screenshot.pdf", run)
       \/ /\ tpc' = "idle"
          /\ UNCHANGED temp
    /\ UNCHANGED <<run, artifacts>>
    /\ UNCHANGED not_temp

\* self.download_image(work.image_url, "temp/image.png"): the image is
\* written, or the method returns False without writing (no URL, not an
\* image, any exception); its result is not looked at.
TempImage ==
    /\ tpc = "image"
    /\ \/ temp' = Written(temp, "image.png", run)
       \/ UNCHANGED temp
    /\ tpc' = "info"
    /\ UNCHANGED <<run, artifacts>>
    /\ UNCHANGED not_temp

\* self._save_info_file(...) writes temp/info.txt or raises.
TempInfo ==
    /\ tpc = "info"
    /\ \/ /\ tpc' = "move"
          /\ temp' = Written(temp, "info.txt", run)
       \/ /\ tpc' = "idle"
          /\ UNCHANGED temp
    /\ UNCHANGED <<run, artifacts>>
    /\ UNCHANGED not_temp

\* DirManager.move_to_numbered_dir(Path("temp"), ...): every file of temp/
\* goes to the new numbered directory, or the call raises before it moves
\* one.
TempMove ==
    /\ tpc = "move"
    /\ \/ /\ artifacts' = Append(artifacts, [by |-> run, files |-> temp])
          /\ temp' = <<>>
       \/ UNCHANGED <<temp, artifacts>>
    /\ tpc' = "idle"
    /\ UNCHANGED run
    /\ UNCHANGED not_temp

TempNext ==
    \/ TempStart
    \/ TempWebsite
    \/ TempPdf
    \/ TempImage
    \/ TempInfo
    \/ TempMove

TempSpec == TempInit /\ [][TempNext]_vars

\* ------------------------------------------------ the download directory
\* Two _download_file tasks of one download_resources call, from the open
\* of the local file on: the pool runs them on two threads, so their steps
\* interleave.
MaxChunks == 2

\* The URLs of the two tasks and the content type of their responses.
StoreUrls ==
    {<<"/", "a", "/", "p">>, <<"/", "b", "/", "p">>, <<"/", "b", "/", "q">>}
StoreType == "image/png"

\* filepath = download_dir / filename
LocalFile(url) ==
    <<"w", "/">> \o GenerateFilename(url, ExtensionFor(StoreType))

\* response.iter_content(chunk_size=8192): the chunks of a response.
Content(url, size) == [k \in 1..size |-> <<url, k>>]

\* What a file holds where nothing was written since it was truncated.
Hole == <<<<>>, 0>>

\* f.write(chunk) at the position of the task's own file object: the chunk
\* lands at that offset of the file as it is now.
WriteAt(file, pos, chunk) ==
    [k \in 1..(IF Len(file) > pos THEN Len(file) ELSE pos) |->
        IF k = pos THEN chunk
        ELSE IF k <= Len(file) THEN file[k] ELSE Hole]

\* Both responses have arrived (requests.get, raise_for_status) and each
\* task is about to open its local file.
StoreInit ==
    /\ NoSchedule
    /\ NoCapture
    /\ NoRewrite
    /\ NoFiles
    /\ NoManagers
    /\ NoNaming
    /\ NoLoad
    /\ NoResources
    /\ NoTemp
    /\ \E u, v \in StoreUrls :
          /\ u # v
          /\ \E sizes \in [{u, v} -> 1..MaxChunks] :
                writers = [x \in {u, v} |->
                              [pc |-> "queued", pos |-> 0, size |-> sizes[x]]]
    /\ disk = <<>>
    /\ saved = <<>>
    /\ closed = <<>>

not_store == <<sched_vars, capture_vars, rewrite_vars, files_vars, proxy_vars,
               naming_vars, load_vars, resource_vars, temp_vars>>

\* with open(filepath, 'wb') as f: the file is made, or cut to length 0.
OpenFile(u) ==
    /\ writers[u].pc = "queued"
    /\ writers' = [writers EXCEPT ![u].pc = "writing"]
    /\ disk' = [p \in DOMAIN disk \cup {LocalFile(u)} |->
                   IF p = LocalFile(u) THEN <<>> ELSE disk[p]]
    /\ UNCHANGED <<saved, closed>>
    /\ UNCHANGED not_store

\* f.write(chunk) for the next chunk of the response; after the last one
\* the `with` ends, which changes nothing in the file, and the task
\* returns (url, str(filepath)).
WriteChunk(u) ==
    /\ writers[u].pc = "writing"
    /\ writers[u].pos < writers[u].size
    /\ LET k == writers[u].pos + 1
           done == k = writers[u].size
       IN  /\ disk' = [disk EXCEPT ![LocalFile(u)] =
                          WriteAt(@, k, Content(u, writers[u].size)[k])]
           /\ writers' = [writers EXCEPT
                             ![u].pos = k,
                             ![u].pc = IF done THEN "returned" ELSE @]
           /\ closed' = IF done THEN Append(closed, u) ELSE closed
    /\ UNCHANGED saved
    /\ UNCHANGED not_store

\* download_resources takes the result of a completed future:
\* url_to_local[original_url] = local_path
TakeResult(u) ==
    /\ writers[u].pc = "returned"
    /\ writers' = [writers EXCEPT ![u].pc = "taken"]
    /\ saved' = [x \in DOMAIN saved \cup {u} |->
                    IF x = u THEN LocalFile(u) ELSE saved[x]]
    /\ UNCHANGED <<disk, closed>>
    /\ UNCHANGED not_store

StoreNext ==
    \/ \E u \in StoreUrls : u \in DOMAIN writers /\ OpenFile(u)
    \/ \E u \in StoreUrls : u \in DOMAIN writers /\ WriteChunk(u)
    \/ \E u \in StoreUrls : u \in DOMAIN writers /\ TakeResult(u)

StoreSpec == StoreInit /\ [][StoreNext]_vars

\* ---------------------------------------------------------- properties
\* The positions of the Results recorded for a work item.
ResultsOf(work) == {k \in 1..Len(data) : data[k].unit = work}
\* The work item waits in the delayed queue.
Queued(work) == \E j \in 1..Len(side_queue) : side_queue[j].work = work
\* Some attempt has been made.
Attempted == last # NoAttempt
\* The last attempt was a re-attempt that failed in the browser stage.
FailedReattempt == last.wait /\ last.outcome \in {"cloak", "exception"}

\* C1: when process_all returns, the Result log holds exactly one Result
\* for every WorkItem of the primary queue, whatever happened to it.
C1_ExactlyOneResult ==
    pc = "done" =>
        \A i \in 1..Len(main_queue) : Cardinality(ResultsOf(main_queue[i])) = 1

\* C2: a delayed unit that fails a re-attempt and is put back carries one
\* attempt less than before; no queued unit and no processed unit has a
\* budget below 1, and a work item with the stale-link Result is neither
\* queued nor processed again.
C2_AttemptsDecrease ==
    /\ \A j \in 1..Len(side_queue) : side_queue[j].attempts >= 1
    /\ last.wait =>
          /\ last.attempts >= 1
          /\ \A k \in 1..Len(last.queued) :
                /\ last.queued[k].work = last.work
                /\ last.queued[k].attempts = last.attempts - 1
    /\ \A k \in 1..Len(data) :
          data[k].context = CtxStale =>
              /\ ~Queued(data[k].unit)
              /\ last.work = data[k].unit => k > Len(data) - Len(last.results)

\* A re-attempt with budget 2 failed and the unit went back with budget 1.
C2_Witness ==
    /\ FailedReattempt
    /\ last.attempts = 2
    /\ Len(last.queued) = 1
    /\ last.queued[1].attempts = 1

\* C3: a failed re-attempt that would bring attempts to 0 appends exactly
\* one error Result with the stale-link context and does not requeue.
C3_TerminalAtZero ==
    (FailedReattempt /\ last.attempts - 1 = 0) =>
        /\ last.results = <<ResultWorkUnit("error", last.work, NoPath, CtxStale)>>
        /\ last.queued = <<>>
        /\ ~Queued(last.work)

\* The last re-attempt of a unit met the title match.
C3_Witness ==
    /\ last.wait
    /\ last.attempts = 1
    /\ last.outcome = "cloak"

\* C4: a unit leaves the delayed queue for a re-attempt, in the inline scan
\* and in the drain phase, only at a time >= its timestamp.
C4_NotBeforeHonoured ==
    [][\A i \in 1..Len(side_queue) :
          (\A j \in 1..Len(side_queue') : side_queue'[j] # side_queue[i])
              => side_queue[i].timestamp <= now]_vars

\* A re-attempt was made in the inline scan.
C4_Witness ==
    /\ last.wait
    /\ pc \in {"scan", "primary"}

\* C5: a primary item of a non-default region without registry entry gets
\* its error Result at once, starts no tunnel and no session, and is never
\* in the delayed queue.
C5_NoProxyTerminal ==
    /\ \A j \in 1..Len(side_queue) :
          \/ side_queue[j].work.lang = DefaultLang
          \/ side_queue[j].work.lang \in Regions
    /\ (Attempted /\ last.work.lang # DefaultLang /\ last.work.lang \notin Regions) =>
          /\ last.results =
                <<ResultWorkUnit("error", last.work, NoPath, CtxNoProxy)>>
          /\ last.queued = <<>>
          /\ last.tunnel = 0
          /\ last.direct = 0
          /\ last.mobile = 0

\* An item was skipped for its missing proxy.
C5_Witness ==
    /\ Attempted
    /\ last.work.lang \notin Regions \cup {DefaultLang}
    /\ Len(last.results) = 1

\* C6: for a proxied region, equal titles of the direct and the mobile
\* session mean no ok Result, no numbered directory, and a requeue while
\* attempts remain.
C6_CloakNotArchived ==
    (last.work.lang # DefaultLang /\ last.same_title) =>
        /\ \A k \in 1..Len(last.results) : last.results[k].status # "ok"
        /\ ~last.dir_made
        /\ IF last.wait /\ last.attempts - 1 = 0
           THEN last.queued = <<>>
           ELSE Len(last.queued) = 1 /\ last.queued[1].work = last.work

\* A primary attempt read equal titles and the item was requeued.
C6_Witness ==
    /\ last.same_title
    /\ ~last.wait
    /\ Len(last.queued) = 1

\* C7: for the default region no direct session is opened, no titles are
\* compared, and no attempt ends in the cloak branch.
C7_DefaultRegionExempt ==
    last.work.lang = DefaultLang =>
        /\ last.direct = 0
        /\ ~last.compared
        /\ last.outcome # "cloak"

\* A default-region item went through the mobile session and was requeued
\* (for an exception).
C7_Witness ==
    /\ last.work.lang = DefaultLang
    /\ last.mobile = 1
    /\ last.queued # <<>>

\* C8: a failed availability probe, of a primary or a delayed item, with or
\* without proxy, appends an error Result, opens no session and does not
\* requeue.
C8_UnreachableShortCircuits ==
    last.probe = "unavailable" =>
        /\ last.results =
              <<ResultWorkUnit("error", last.work, NoPath, CtxUnavailable)>>
        /\ last.direct = 0
        /\ last.mobile = 0
        /\ last.queued = <<>>
        /\ ~Queued(last.work)

\* The probe of a delayed item failed behind the tunnel.
C8_Witness ==
    /\ last.probe = "unavailable"
    /\ last.wait
    /\ last.tunnel = 1

\* The time the last primary item's own processing ended, seen from the
\* head of the primary loop: the missing-proxy skip and an exception of the
\* item come back at once, otherwise the scan took current_time then.
PrimaryItemEnd ==
    IF ~last.wait /\ last.outcome \in {"no_proxy", "escaped"}
    THEN now
    ELSE current_time

\* C9: when the next primary item is about to be taken, no unit that was
\* due when the previous primary item ended is still in the delayed queue.
C9_DueProcessedBeforeNextItem ==
    (pc = "primary" /\ queue # <<>> /\ Attempted) =>
        \A j \in 1..Len(side_queue) : ~Due(side_queue[j], PrimaryItemEnd)

\* C10: process_all terminates: an exception leaves it, or it returns, and
\* then the delayed queue is empty.
C10_Terminates ==
    <>(pc = "raised" \/ (pc = "done" /\ side_queue = <<>>))

\* process_all returned after the drain phase made a re-attempt.
C10_Witness ==
    /\ pc = "done"
    /\ last.wait
    /\ side_queue = <<>>

\* The position of a work item in the input batch.
InputIndex(work) == CHOOSE i \in 1..Len(main_queue) : main_queue[i] = work

\* C11: the primary loop takes the items in input order, and the Results of
\* a first attempt are appended after every Result of an earlier item and
\* before any Result of a later one, so that two items that end on their
\* first attempt have their Results in input order.
C11_InputOrder ==
    [][(pc = "primary" /\ queue' # queue) =>
          LET taken == last'.work
          IN  /\ ~last'.wait
              /\ taken = main_queue[Len(main_queue) - Len(queue) + 1]
              /\ queue = <<taken>> \o queue'
              /\ data' = data \o last'.results
              /\ \A k \in 1..Len(data) :
                    InputIndex(data[k].unit) < InputIndex(taken)]_vars

\* The first two items of the batch both ended on their first attempt.
C11_Witness ==
    /\ pc = "primary"
    /\ now = 0
    /\ Len(data) = 2
    /\ data[1].unit = main_queue[1]
    /\ data[2].unit = main_queue[2]

\* C12: an exception never takes process_all away from delayed items that
\* still wait (the primary queue is empty by then).
C12_ExceptionNeverAborts ==
    pc = "raised" => (queue = <<>> /\ side_queue = <<>>)

\* C13: an attempt in which the zip or the move to the numbered directory
\* fails ends with one error Result for the item and does not requeue it.
C13_ArchiveFailureTerminal ==
    (Attempted /\ last.stage \in {"archive", "move"}) =>
        /\ Len(last.results) = 1
        /\ last.results[1].status = "error"
        /\ last.queued = <<>>

\* C14: an attempt in which a browser session or download_website raises
\* takes the except branch and never the error Result of a failed download;
\* while attempts remain it appends no Result and requeues the item.
C14_CaptureFailureRequeues ==
    (Attempted /\ last.stage \in {"direct", "mobile", "capture", "archive"}) =>
        /\ last.outcome = "exception"
        /\ \A k \in 1..Len(last.results) : last.results[k].context # CtxDownload
        /\ (~last.wait \/ last.attempts - 1 > 0) =>
              /\ last.results = <<>>
              /\ Len(last.queued) = 1
              /\ last.queued[1].work = last.work

\* A re-attempt with attempts left was requeued after the capture raised.
C14_Witness ==
    /\ last.wait
    /\ last.stage = "capture"
    /\ last.attempts = 2
    /\ last.queued # <<>>

\* The threads that are inside a call of the browser driver.
DriverUsers ==
    (IF cpc \in {"scroll", "measure", "collect"} THEN {<<"main", 0>>} ELSE {})
    \cup {<<"pool", u>> : u \in {v \in DOMAIN worker : worker[v].pc = "referer"}}

\* C15: a URL is fetched at most max_retries times, the k-th wait is k
\* times retry_delay, and a URL whose third try failed is not a key of the
\* mapping download_resources returns.
C15_ThreeTriesLinearBackoff ==
    \A u \in DOMAIN worker :
        LET w == worker[u]
        IN  /\ w.fetches <= max_retries
            /\ \A k \in 1..Len(w.waits) : w.waits[k] = k * retry_delay
            /\ w.result = "none" =>
                 /\ w.fetches = max_retries
                 /\ Len(w.waits) = max_retries - 1
                 /\ u \notin DOMAIN url_to_local

\* download_resources returned after a URL failed its three tries.
C15_Witness ==
    /\ cpc = "returned"
    /\ \E u \in DOMAIN worker :
         /\ worker[u].result = "none"
         /\ worker[u].waits = <<retry_delay, 2 * retry_delay>>

\* C16: download_resources is never left by an exception of a download,
\* and the keys of the mapping it returns are the URLs whose download
\* succeeded.
C16_FailedDownloadsDropped ==
    /\ cpc # "failed"
    /\ cpc = "returned" =>
         DOMAIN url_to_local = {u \in urls : worker[u].result = "ok"}

\* download_resources returned a mapping with one URL after the task of
\* another URL raised.
C16_Witness ==
    /\ cpc = "returned"
    /\ \E u \in urls : worker[u].result = "raised"
    /\ \E u \in urls : u \in DOMAIN url_to_local

\* C17: only the main thread is ever inside a call of the browser driver.
C17_DriverSingleThread ==
    DriverUsers \subseteq {<<"main", 0>>}

\* C18: the scroll loop of _get_page_resources comes to an end.
C18_ScrollTerminates ==
    <>(cpc \notin {"scroll", "measure"})

\* The quoted strings of a text that refer to the resource of a filename.
References(h, filename) ==
    {SubSeq(h, i + 1, NextQuote(h, i) - 1) :
        i \in {k \in 1..Len(h) : MatchAt(h, k, filename)}}

\* C19: in the text replace_urls_in_html returns, every quoted string that
\* refers to a resource of the mapping is the local filename of that
\* resource: no other form of the reference is left.
C19_EveryFormReplaced ==
    rpc \in {"second", "done"} =>
        \A k \in 1..Len(url_mapping) :
            LET filename == FilenameOf(url_mapping[k].target_value)
            IN  filename # <<>> =>
                  References(html_once, filename)
                      \subseteq {Basename(url_mapping[k].local_path)}

\* C20: the second call, on the text the first call returned and with the
\* same mapping, returns that text.
C20_RewriteIdempotent ==
    rpc = "done" => html_content = html_once

\* C29: the request loop of _get_page_resources ends, with the page taken
\* as settled, only after it slept through at least one quiet period.
C29_SettledAfterQuietPeriod ==
    [][(Settle /\ cpc' = "download") => quiet >= 1]_vars

\* C26: every unit a step puts in the delayed queue, fresh from the primary
\* path or requeued by a re-attempt with whatever attempts it has left, has
\* as its timestamp the time of the failed attempt plus RetryDelay minutes.
C26_FixedRetryDelay ==
    [][\A i \in 1..Len(side_queue') :
          (\A j \in 1..Len(side_queue) : side_queue[j] # side_queue'[i])
              => side_queue'[i].timestamp = now' + RetryDelay]_vars

\* A re-attempt requeued its unit with one attempt left, at a time later
\* than the start of the run.
C26_Witness ==
    /\ last.wait
    /\ Len(last.queued) = 1
    /\ last.queued[1].attempts = 1
    /\ last.queued[1].timestamp = now + RetryDelay
    /\ now > 0

\* C28: the delayed queue is ordered by non-decreasing timestamp, so its
\* head, which the sleep of the drain phase is computed from, has the
\* earliest timestamp.
C28_DelayedQueueOrdered ==
    \A i, j \in 1..Len(side_queue) :
        i < j => side_queue[i].timestamp <= side_queue[j].timestamp

\* The drain phase is about to sleep with two units of different
\* timestamps in the delayed queue.
C28_Witness ==
    /\ pc = "drain_sleep"
    /\ Len(side_queue) >= 2
    /\ side_queue[1].timestamp < side_queue[Len(side_queue)].timestamp

\* The rows above the first row with an empty link.
FilledRows(sh) ==
    {r \in 1..Len(sh) : \A k \in 1..r : sh[k].link # "None"}

\* The rows of a set in row order.
RECURSIVE InRowOrder(_)
InRowOrder(rs) ==
    IF rs = {} THEN <<>>
    ELSE LET r == CHOOSE x \in rs : \A y \in rs : x <= y
         IN  <<r>> \o InRowOrder(rs \ {r})

\* C27: after loading, the primary queue holds one WorkUnit for each row
\* that is not marked and lies above the first row with an empty link, in
\* row order, and nothing else.
C27_LoadedRows ==
    lpc = "loaded" =>
        LET kept == InRowOrder({r \in FilledRows(sheet) : ~sheet[r].marked})
        IN  /\ Len(main_queue) = Len(kept)
            /\ \A k \in 1..Len(kept) :
                  main_queue[k] = WorkUnit(NormalLink(sheet[kept[k]].link),
                                           LowerLang(sheet[kept[k]].lang))

\* A sheet was loaded that has a marked row and an unmarked row above its
\* first empty link and an unmarked row with a link below it.
C27_Witness ==
    /\ lpc = "loaded"
    /\ main_queue # <<>>
    /\ \E r \in FilledRows(sheet) : sheet[r].marked
    /\ \E r \in 1..Len(sheet) :
          r \notin FilledRows(sheet) /\ sheet[r].link # "None" /\ ~sheet[r].marked

\* C23: a ProxyManager on which add_proxy was never called (it has no
\* count of its own) shows no region and no proxy, whatever was added to
\* other instances.
C23_RegistryPerInstance ==
    \A i \in 1..Len(managers) :
        "count" \notin managers[i].own =>
            /\ Attribute(i, "regions") = <<>>
            /\ DOMAIN Attribute(i, "proxies") = {}

\* C25: the generated filename is the basename of the URL path, or a hash
\* when that is empty, followed by the extension the table
\* text/javascript .js, text/css .css, image/png .png, image/jpeg .jpg,
\* image/webp .webp, font/woff2 .woff2, application/json .json,
\* text/html .html, application/xml .xml gives the content type, when the
\* type is in the table and the name does not end with that extension.
C25_FilenameByTable ==
    naming.pc = "returned" =>
        LET tbl == ("text/javascript" :> <<".", "j", "s">>) @@
                   ("text/css" :> <<".", "c", "s", "s">>) @@
                   ("image/png" :> <<".", "p", "n", "g">>) @@
                   ("image/jpeg" :> <<".", "j", "p", "g">>) @@
                   ("image/webp" :> <<".", "w", "e", "b", "p">>) @@
                   ("font/woff2" :> <<".", "w", "o", "f", "f", "2">>) @@
                   ("application/json" :> <<".", "j", "s", "o", "n">>) @@
                   ("text/html" :> <<".", "h", "t", "m", "l">>) @@
                   ("application/xml" :> <<".", "x", "m", "l">>)
            media == MediaType(naming.content_type)
            ext == IF naming.content_type # "None" /\ media \in DOMAIN tbl
                   THEN tbl[media] ELSE <<>>
        IN  naming.filename = GenerateFilename(naming.url, ext)

\* The text has a <base> tag.
HasBaseTag(h) ==
    \E p \in 1..(Len(h) - 4) : SubSeq(h, p, p + 4) = <<"<", "b", "a", "s", "e">>

\* C24: the text download_website writes to index.html, which is what
\* replace_urls_in_html returns for the page source, has no <base> tag.
C24_NoBaseTag ==
    rpc \in {"second", "done"} => ~HasBaseTag(html_once)

\* C21: the number of the folder a move makes is 1 when the target has no
\* directory with an all-digit name, else the largest of their numbers
\* plus one: it is the number of no existing folder and above all of them
\* (1, 2, 4 gives 5), whatever files and other names the target holds.
C21_NextNumberIsMaxPlusOne ==
    [][(fpc = "ready" /\ fpc' = "moved") =>
          LET numbers == ExistingFolders(target_dir)
              number == IntOf(new_folder'.name)
          IN  /\ new_folder'.name = StrOf(number)
              /\ number \notin numbers
              /\ \A n \in numbers : n < number
              /\ numbers = {} => number = 1
              /\ numbers # {} => (number - 1) \in numbers
              /\ new_folder'.name \in DOMAIN target_dir'
              /\ target_dir'[new_folder'.name] = "dir"]_vars

\* Folders 1, 2 and 4 existed, next to a file with an all-digit name and a
\* directory with another name, and the move made folder 5.
C21_Witness ==
    /\ fpc = "moved"
    /\ new_folder.name = <<"5">>
    /\ \A name \in {<<"1">>, <<"2">>, <<"4">>} :
          name \in DOMAIN target_dir /\ target_dir[name] = "dir"
    /\ <<"0", "9">> \in DOMAIN target_dir /\ target_dir[<<"0", "9">>] = "file"
    /\ <<"x">> \in DOMAIN target_dir /\ target_dir[<<"x">>] = "dir"

\* C22: make_archive changes the source folder only when the archive
\* exists, and without an archive it ends with an error raised and the
\* source folder as it was.
C22_SourceKeptWithoutArchive ==
    [][(MakeArchiveZip \/ MakeArchiveRemove) =>
          /\ source_dir' # source_dir => archive = "exists"
          /\ (fpc = "zipped" /\ archive # "exists") =>
                (fpc' = "raised" /\ source_dir' = source_dir)
          /\ fpc' = "archived" => archive' = "exists"]_vars

\* shutil.make_archive returned without leaving an archive, make_archive
\* raised and the source folder with its entries is still there.
C22_Witness ==
    /\ fpc = "raised"
    /\ archive = "none"
    /\ source_dir.kind = "dir"
    /\ DOMAIN source_dir.entries = SourceNames
    /\ new_folder.name = <<>>

\* C30: after move_to_numbered_dir the new folder holds every entry the
\* working directory had, files and subdirectories, and the working
\* directory is empty.
C30_WholeDirectoryMoved ==
    [][(MoveToNumberedDir /\ fpc' = "moved") =>
          /\ new_folder'.entries = source_dir.entries
          /\ DOMAIN source_dir'.entries = {}]_vars


\* C34: every record of the delayed queue, and of the copy of it that a
\* scan iterates, has attempts between 1 and 3; a record with attempts 0
\* or less is never queued.
C34_QueuedAttemptsInRange ==
    /\ \A j \in 1..Len(side_queue) : side_queue[j].attempts \in 1..3
    /\ \A j \in 1..Len(pending) : pending[j].attempts \in 1..3

\* The delayed queue holds a record on its last attempt next to a record
\* that was queued at its first failure.
C34_Witness ==
    \E i, j \in 1..Len(side_queue) :
        /\ side_queue[i].attempts = 1
        /\ side_queue[j].attempts = 3

\* C40: in every state of the Result log, a Result has an artifact path if
\* and only if its status is ok, and every Result with status error has a
\* context message that is not empty.
C40_PathIffOk ==
    \A k \in 1..Len(data) :
        /\ data[k].status \in {"ok", "error"}
        /\ (data[k].path # NoPath) <=> (data[k].status = "ok")
        /\ data[k].status = "error" => data[k].context \notin {NoContext, ""}

\* The log holds a Result of each context and an ok Result.
C40_Witness ==
    /\ \E k \in 1..Len(data) : data[k].status = "ok"
    /\ \E k \in 1..Len(data) : data[k].context = CtxNoProxy
    /\ \E k \in 1..Len(data) : data[k].context \in {CtxUnavailable, CtxStale}

\* The positions of the ok Results of the log.
OkResults == {k \in 1..Len(data) : data[k].status = "ok"}

\* C38: within one run two distinct ok Results never carry the same
\* artifact path, and the numbers given out under one region directory are
\* strictly increasing in the order in which the ok Results were appended.
C38_PathsDistinctAndIncreasing ==
    \A j, k \in OkResults :
        j < k =>
            /\ data[j].path # data[k].path
            /\ data[j].path.lang = data[k].path.lang
                  => data[j].path.number < data[k].path.number

\* Two items of one region were archived, one after the other.
C38_Witness ==
    \E j, k \in OkResults :
        /\ j < k
        /\ data[j].path.lang = data[k].path.lang
        /\ data[j].unit # data[k].unit

\* The routing of the first attempt of an item of region lang: the proxy
\* of the region for every region but the default one.
FirstRouting(lang) == IF lang # DefaultLang THEN GetProxy(lang) ELSE NoProxy

\* C33: a re-attempt is routed as the item's first attempt was: a delayed
\* item goes through the proxy path if and only if its region is not the
\* default region, and then the tunnel is started with the proxy profile
\* that its retry record has stored since the first failure.
C33_ReattemptSameRouting ==
    /\ \A j \in 1..Len(side_queue) :
          side_queue[j].proxy = FirstRouting(side_queue[j].work.lang)
    /\ last.wait =>
          /\ (last.tunnel = 1) <=> (last.work.lang # DefaultLang)
          /\ last.tunnel \in {0, 1}
          /\ last.stored = FirstRouting(last.work.lang)
          /\ last.profile = last.stored

\* A re-attempt went through the tunnel of the stored proxy profile.
C33_Witness ==
    /\ last.wait
    /\ last.tunnel = 1
    /\ last.profile = GetProxy(last.work.lang)
    /\ last.attempts < 3

\* A step of process_all that makes a processing attempt.
AttemptStep == PrimaryItem \/ InlineScanUnit \/ DrainScanUnit

\* C36: a WorkItem occurs at most once in the delayed queue; a WorkItem
\* that has a Result in the log is not in the delayed queue, and no later
\* step processes it again.
C36_OnceQueuedNeverAfterResult ==
    /\ [](\A i, j \in 1..Len(side_queue) :
              side_queue[i].work = side_queue[j].work => i = j)
    /\ [](\A k \in 1..Len(data) : ~Queued(data[k].unit))
    /\ [][AttemptStep => ResultsOf(last'.work) = {}]_vars

\* Two items wait in the delayed queue while a third has its Result, and
\* the last step was a re-attempt.
C36_Witness ==
    /\ Len(side_queue) = 2
    /\ Len(data) >= 1
    /\ last.wait

\* C35: in a run _process_browser is called at most 4 times for one
\* WorkItem, the primary attempt and 3 re-attempts, and an item that fails
\* every attempt gets its terminal error Result at the 4th failure and at
\* no earlier one.
C35_AtMostFourAttempts ==
    /\ last.tries <= 4
    /\ \A w \in DOMAIN tries : tries[w] \in 1..3
    /\ DOMAIN tries = {side_queue[j].work : j \in 1..Len(side_queue)}
    /\ last.outcome \in {"cloak", "exception"} =>
          IF last.tries = 4
          THEN /\ last.results =
                     <<ResultWorkUnit("error", last.work, NoPath, CtxStale)>>
               /\ last.queued = <<>>
          ELSE /\ last.results = <<>>
               /\ Len(last.queued) = 1
               /\ last.queued[1].work = last.work

\* The 4th attempt of an item failed in the browser stage.
C35_Witness ==
    /\ last.tries = 4
    /\ last.outcome \in {"cloak", "exception"}
    /\ last.mobile = 1

\* C39: the tunnel started for an attempt is stopped on every way out of
\* _process_with_proxy, so that no tunnel process runs between attempts and
\* at most one exists at any time; Proxy.start on an object whose process
\* runs returns False and spawns nothing.
C39_TunnelStoppedOnExit ==
    /\ apc = "idle" => tunnels = {}
    /\ Cardinality(tunnels) <= 1
    /\ IsRunning(process, tunnels) =>
          \A o \in StartOutcomes :
              Start(process, tunnels, attempt_no + 1, o) =
                  [ret |-> FALSE, process |-> process, running |-> tunnels]

C37_ArtifactFilesFresh ==
    \A k \in 1..Len(artifacts) :
        \A f \in DOMAIN artifacts[k].files :
            artifacts[k].files[f] = artifacts[k].by

\* The URL whose write to the file at path finished last.
RECURSIVE LastClosed(_, _)
LastClosed(path, i) ==
    IF LocalFile(closed[i]) = path THEN closed[i] ELSE LastClosed(path, i - 1)

\* C31: when two distinct URLs derive the same local filename nothing tells
\* them apart: both entries of the mapping point to the one local path,
\* both downloads write that file, and once both are done the file holds
\* the content of the write that finished last.
C31_LastWriteWins ==
    (\A u \in DOMAIN writers : writers[u].pc = "taken") =>
        \A u, v \in DOMAIN writers :
            (u # v /\ GenerateFilename(u, ExtensionFor(StoreType))
                        = GenerateFilename(v, ExtensionFor(StoreType))) =>
                /\ saved[u] = saved[v]
                /\ LET last_url == LastClosed(saved[u], Len(closed))
                   IN  disk[saved[u]] =
                           Content(last_url, writers[last_url].size)
====
